---- MODULE Spec2Model ----
(***************************************************************************)
(* Semantic document segmentation of doc-index (src/src/chunking.ts) and   *)
(* the collaborators it awaits (src/src/openai.ts).                        *)
(*                                                                         *)
(* Text is a sequence of one-character strings.  Indices named after the   *)
(* JavaScript source are 0-based; SubSeq indices are 1-based.              *)
(* Similarities are exact rationals kept as integers in units of           *)
(* 1/SimScale; the model does not reproduce IEEE-754 rounding.             *)
(***************************************************************************)
EXTENDS Integers, Sequences, FiniteSets, TLC

\* ------------------------------------------------------------------------
\* Bounds of the model
\* ------------------------------------------------------------------------
MaxSentences == 4
TinyLen == 3
ShortLen == 8
LongLen == 210
MaxFaults == 1
MaxSims == 5
MaxPairSentences == 4
\* results in the text list and the image list together
MaxResults == 3
MaxLimit == 2
\* characters between two separators of a text given to findSplitPoint, and
\* how far from the edge margin its outer parts end
MaxGap == 50
EdgeSlack == 5
MaxBisectLen == 5
\* job-store operations issued by one process, faults of the file system,
\* and progress or log callbacks of the indexing runs together
MaxOps == 3
MaxStoreFaults == 1
MaxCallbacks == 1
\* similarities of a series handled in the arithmetic of numbers
MaxDoubleSims == 6

\* ------------------------------------------------------------------------
\* Characters
\* ------------------------------------------------------------------------
\* the characters JavaScript's \s matches, on the model's alphabet
WS == {" ", "\n", "\r"}
\* [\.\?\!] of the sentence regex
Terminators == {".", "?", "!"}
\* [A-Z0-9"'] of the sentence regex, on the model's alphabet
SentenceStart == {"A", "\""}

Min(a, b) == IF a < b THEN a ELSE b
Max(a, b) == IF a > b THEN a ELSE b
Abs(a) == IF a < 0 THEN -a ELSE a
SetMin(S) == CHOOSE x \in S : \A y \in S : x <= y
SetMax(S) == CHOOSE x \in S : \A y \in S : x >= y

RECURSIVE SumSeq(_)
SumSeq(s) == IF s = <<>> THEN 0 ELSE Head(s) + SumSeq(Tail(s))

\* String.prototype.slice(a, b) for 0 <= a, b
Slice(s, a, b) == SubSeq(s, Min(a, Len(s)) + 1, Min(b, Len(s)))

RECURSIVE TrimStart(_)
TrimStart(s) == IF s # <<>> /\ Head(s) \in WS THEN TrimStart(Tail(s)) ELSE s

RECURSIVE TrimEnd(_)
TrimEnd(s) ==
  IF s # <<>> /\ s[Len(s)] \in WS THEN TrimEnd(SubSeq(s, 1, Len(s) - 1)) ELSE s

\* String.prototype.trim
Trim(s) == TrimEnd(TrimStart(s))

\* 0-based positions at which the two-character pattern pat occurs in s
Occurrences(s, pat) ==
  {i \in 0..(Len(s) - 2) : s[i + 1] = pat[1] /\ s[i + 2] = pat[2]}

\* String.prototype.indexOf(pat, from), -1 when there is none
IndexOf(s, pat, from) ==
  LET hits == {i \in Occurrences(s, pat) : i >= from}
  IN IF hits = {} THEN -1 ELSE SetMin(hits)

\* String.prototype.lastIndexOf(pat, from), -1 when there is none
LastIndexOf(s, pat, from) ==
  LET hits == {i \in Occurrences(s, pat) : i <= from}
  IN IF hits = {} THEN -1 ELSE SetMax(hits)

\* Array.prototype.join
RECURSIVE Join(_, _)
Join(parts, sep) ==
  IF parts = <<>> THEN <<>>
  ELSE IF Len(parts) = 1 THEN parts[1]
  ELSE parts[1] \o sep \o Join(Tail(parts), sep)

\* last position (1-based) of the whitespace run that position i lies in
RECURSIVE RunEnd(_, _)
RunEnd(s, i) == IF i < Len(s) /\ s[i + 1] \in WS THEN RunEnd(s, i + 1) ELSE i

\* content.replace(/\r\n/g, '\n')
ReplaceCrLf(s) ==
  LET keep == {i \in 1..Len(s) : ~(s[i] = "\r" /\ i < Len(s) /\ s[i + 1] = "\n")}
      idx == [i \in 1..Len(s) |-> i]
      kept == SelectSeq(idx, LAMBDA i : i \in keep)
  IN [k \in 1..Len(kept) |-> s[kept[k]]]

\* text.replace(/\s+\n/g, '\n'): in every whitespace run, everything up to
\* the run's last newline is replaced by that newline, provided at least
\* one whitespace character precedes it
CollapseBeforeNewline(s) ==
  LET dropped(i) == s[i] \in WS /\ \E j \in (i + 1)..RunEnd(s, i) : s[j] = "\n"
      idx == [i \in 1..Len(s) |-> i]
      kept == SelectSeq(idx, LAMBDA i : ~dropped(i))
  IN [k \in 1..Len(kept) |-> s[kept[k]]]

normalizeContent(content) == Trim(CollapseBeforeNewline(ReplaceCrLf(content)))

\* 1-based first positions of the separators of
\* /(?<=[\.\?\!])\s+(?=[A-Z0-9"'])/
SentenceBreaks(s) ==
  {i \in 2..Len(s) :
     /\ s[i] \in WS
     /\ s[i - 1] \in Terminators
     /\ RunEnd(s, i) < Len(s)
     /\ s[RunEnd(s, i) + 1] \in SentenceStart}

RECURSIVE SplitAt(_, _, _)
SplitAt(s, from, breaks) ==
  IF {b \in breaks : b >= from} = {} THEN <<SubSeq(s, from, Len(s))>>
  ELSE LET b == SetMin({x \in breaks : x >= from})
       IN <<SubSeq(s, from, b - 1)>> \o SplitAt(s, RunEnd(s, b) + 1, breaks)

splitIntoSentences(text) ==
  LET raw == SplitAt(text, 1, SentenceBreaks(text))
      trimmed == [i \in 1..Len(raw) |-> Trim(raw[i])]
  IN SelectSeq(trimmed, LAMBDA x : x # <<>>)

countSentences(text) ==
  LET n == Len(splitIntoSentences(text)) IN IF n = 0 THEN 1 ELSE n

\* ------------------------------------------------------------------------
\* Boundary detection (chunking.ts 271-337, 485-516)
\* ------------------------------------------------------------------------
\* one similarity unit is 1/SimScale: 0.05 is 1, 0.25 is 5, 1 is 20
SimScale == 4 * 5

ISqrt(n) == CHOOSE r \in 0..n : r * r <= n /\ (r + 1) * (r + 1) > n

RECURSIVE Dot(_, _)
Dot(a, b) ==
  IF a = <<>> \/ b = <<>> THEN 0 ELSE Head(a) * Head(b) + Dot(Tail(a), Tail(b))

\* cosine similarity in similarity units; exact for vectors of integer norm
cosineSimilarity(a, b) ==
  LET dot == Dot(a, b)
      normA == Dot(a, a)
      normB == Dot(b, b)
  IN IF normA = 0 \/ normB = 0 THEN 0
     ELSE (SimScale * dot) \div (ISqrt(normA) * ISqrt(normB))

computePairwiseSimilarities(embeddings) ==
  [i \in 1..(Len(embeddings) - 1) |-> cosineSimilarity(embeddings[i], embeddings[i + 1])]

Gcd(a, b) == SetMax({d \in 1..Min(a, b) : a % d = 0 /\ b % d = 0})

RECURSIVE LcmUpTo(_)
LcmUpTo(n) ==
  IF n <= 1 THEN 1 ELSE LET l == LcmUpTo(n - 1) IN (l * n) \div Gcd(l, n)

\* common denominator of the moving averages of radius windowRadius
SmoothDen(windowRadius) == LcmUpTo(2 * windowRadius + 1)

\* smooth that leaves every value as it is
smooth_Unsmoothed(values, windowRadius) ==
  IF Len(values) = 0 \/ windowRadius <= 0 THEN values
  ELSE [index \in 1..Len(values) |-> values[index] * SmoothDen(windowRadius)]

\* smooth(values, windowRadius) times SmoothDen(windowRadius)
smooth(values, windowRadius) ==
  IF Len(values) = 0 \/ windowRadius <= 0 THEN values
  ELSE [index \in 1..Len(values) |->
          LET start == Max(1, index - windowRadius)
              end == Min(Len(values), index + windowRadius)
              slice == SubSeq(values, start, end)
              total == SumSeq(slice)
          IN total * (SmoothDen(windowRadius) \div Len(slice))]

\* The statistics of detectBreakPoints over the smoothed series.  All
\* quantities are kept times n = smoothed.length and times den, the common
\* denominator of the smoothed values: meanN is n * mean, and q is the sum
\* of the squares of n * smoothed[j] - meanN, so that n * std = sqrt(q / n).
Stats(similarities, opts) ==
  LET smoothed == smooth(similarities, opts.smoothWindow)
      n == Len(smoothed)
      meanN == SumSeq(smoothed)
  IN [smoothed |-> smoothed,
      den |-> IF opts.smoothWindow <= 0 THEN 1 ELSE SmoothDen(opts.smoothWindow),
      meanN |-> meanN,
      q |-> SumSeq([j \in 1..n |-> (n * smoothed[j] - meanN) * (n * smoothed[j] - meanN)])]

\* current < threshold, for current given times n, where
\* dynamicThreshold = std > 0 ? mean - stdMultiplier * std : mean - 0.05 and
\* threshold = Math.max(-1, Math.min(dynamicThreshold, mean))
BelowThreshold(current, stats, opts) ==
  LET n == Len(stats.smoothed)
      belowDynamic ==
        IF stats.q > 0
        THEN /\ stats.meanN - current > 0
             /\ opts.stdMultiplier * opts.stdMultiplier * stats.q
                  < n * (stats.meanN - current) * (stats.meanN - current)
        ELSE current < stats.meanN - n * stats.den * 1
  IN \/ current < -(n * stats.den * SimScale)
     \/ (belowDynamic /\ current < stats.meanN)

\* MarkConditions that lets the last sentence start a segment
MarkConditions_NoEndMargin(stats, sentenceCount, opts, st) ==
  LET n == Len(stats.smoothed)
      i == st.i
      current == n * stats.smoothed[i + 1]
      previous == IF i > 0 THEN n * stats.smoothed[i] ELSE stats.meanN
      drop == previous - current
  IN [shouldBreak |->
        \/ (drop > n * stats.den * opts.similarityDrop /\ current < previous)
        \/ BelowThreshold(current, stats, opts),
      enoughSentences |-> i + 1 - st.lastBreak >= 2,
      notTooCloseToEnd |-> TRUE]

\* the three conditions of the loop body of detectBreakPoints at position
\* st.i (0-based), st.lastBreak being the last breakpoint marked
MarkConditions(stats, sentenceCount, opts, st) ==
  LET n == Len(stats.smoothed)
      i == st.i
      current == n * stats.smoothed[i + 1]
      previous == IF i > 0 THEN n * stats.smoothed[i] ELSE stats.meanN
      drop == previous - current
  IN [shouldBreak |->
        \/ (drop > n * stats.den * opts.similarityDrop /\ current < previous)
        \/ BelowThreshold(current, stats, opts),
      enoughSentences |-> i + 1 - st.lastBreak >= 2,
      notTooCloseToEnd |-> i + 1 < sentenceCount - 1]

\* ShouldMark without the distance to the last breakpoint
ShouldMark_NoSpacing(stats, sentenceCount, opts, st) ==
  LET c == MarkConditions(stats, sentenceCount, opts, st)
  IN c.shouldBreak /\ c.notTooCloseToEnd

\* shouldBreak && enoughSentences && notTooCloseToEnd
ShouldMark(stats, sentenceCount, opts, st) ==
  LET c == MarkConditions(stats, sentenceCount, opts, st)
  IN c.shouldBreak /\ c.enoughSentences /\ c.notTooCloseToEnd

\* the loop of detectBreakPoints from position st.i (0-based) on
RECURSIVE BreakLoop(_, _, _, _)
BreakLoop(stats, sentenceCount, opts, st) ==
  IF st.i >= Len(stats.smoothed) THEN st.breakPoints
  ELSE IF ShouldMark(stats, sentenceCount, opts, st)
  THEN BreakLoop(stats, sentenceCount, opts,
                 [i |-> st.i + 1, lastBreak |-> st.i + 1,
                  breakPoints |-> Append(st.breakPoints, st.i + 1)])
  ELSE BreakLoop(stats, sentenceCount, opts, [st EXCEPT !.i = st.i + 1])

detectBreakPoints(similarities, sentenceCount, opts) ==
  IF Len(similarities) = 0 THEN <<>>
  ELSE BreakLoop(Stats(similarities, opts), sentenceCount, opts,
                 [i |-> 0, lastBreak |-> 0, breakPoints |-> <<>>])

\* ------------------------------------------------------------------------
\* detectBreakPoints in the arithmetic of the JavaScript number type
\* (IEEE 754 binary64, round to nearest, ties to even).  A number is
\* sign * mant * 2^exp: mant is a sequence of bits, least significant
\* first, that is empty for zero and starts and ends with 1 otherwise.  A
\* number that a variable can hold has at most MantissaBits bits.  The
\* values of this section stay in the normal range, so that no operation
\* overflows or underflows.
\* ------------------------------------------------------------------------
\* the bits of the significand of a number: 52 stored and one implied
MantissaBits == 52 + 1

\* the bits that a division carries its quotient to beyond its dividend
QuotientBits == MantissaBits + 7

DoubleZero == [sign |-> 0, mant |-> <<>>, exp |-> 0]

Bit(a, i) == IF i <= Len(a) THEN a[i] ELSE 0

\* a without its leading zeros
StripHigh(a) ==
  LET ones == {i \in 1..Len(a) : a[i] = 1}
  IN IF ones = {} THEN <<>> ELSE SubSeq(a, 1, SetMax(ones))

\* the number sign * a * 2^exp in its one representation
Canonical(sign, a, exp) ==
  LET high == StripHigh(a)
  IN IF high = <<>> \/ sign = 0 THEN DoubleZero
     ELSE LET low == SetMin({i \in 1..Len(high) : high[i] = 1})
          IN [sign |-> sign, mant |-> SubSeq(high, low, Len(high)),
              exp |-> exp + low - 1]

\* s without its last element
Front(s) == SubSeq(s, 1, Len(s) - 1)

Last(s) == s[Len(s)]

\* the bits lo..hi of a + b + carry, then the carry out
RECURSIVE AddRange(_, _, _, _, _)
AddRange(a, b, lo, hi, carry) ==
  IF lo = hi
  THEN LET s == Bit(a, lo) + Bit(b, lo) + carry IN <<s % 2, s \div 2>>
  ELSE LET mid == (lo + hi) \div 2
           low == AddRange(a, b, lo, mid, carry)
       IN Front(low) \o AddRange(a, b, mid + 1, hi, Last(low))

AddBits(a, b) ==
  IF a = <<>> THEN b
  ELSE IF b = <<>> THEN a
  ELSE AddRange(a, b, 1, Max(Len(a), Len(b)), 0)

\* the bits lo..hi of a - b - borrow, then the borrow out
RECURSIVE SubRange(_, _, _, _, _)
SubRange(a, b, lo, hi, borrow) ==
  IF lo = hi
  THEN LET d == Bit(a, lo) - Bit(b, lo) - borrow
       IN <<(d + 2) % 2, IF d < 0 THEN 1 ELSE 0>>
  ELSE LET mid == (lo + hi) \div 2
           low == SubRange(a, b, lo, mid, borrow)
       IN Front(low) \o SubRange(a, b, mid + 1, hi, Last(low))

\* a - b for a >= b
SubBits(a, b) == IF a = <<>> THEN <<>> ELSE Front(SubRange(a, b, 1, Len(a), 0))

\* a < b for a and b without leading zeros
LessBits(a, b) ==
  \/ Len(a) < Len(b)
  \/ /\ Len(a) = Len(b)
     /\ \E i \in 1..Len(a) :
          a[i] < b[i] /\ \A j \in (i + 1)..Len(a) : a[j] = b[j]

ShiftLeft(a, k) == [i \in 1..k |-> 0] \o a

Negated(x) == [x EXCEPT !.sign = -x.sign]

\* x + y without rounding
ExactSum(x, y) ==
  IF x.sign = 0 THEN y
  ELSE IF y.sign = 0 THEN x
  ELSE
    LET e == Min(x.exp, y.exp)
        a == ShiftLeft(x.mant, x.exp - e)
        b == ShiftLeft(y.mant, y.exp - e)
    IN IF x.sign = y.sign THEN Canonical(x.sign, AddBits(a, b), e)
       ELSE IF a = b THEN DoubleZero
       ELSE IF LessBits(a, b) THEN Canonical(y.sign, SubBits(b, a), e)
       ELSE Canonical(x.sign, SubBits(a, b), e)

\* the nearest number of MantissaBits bits, the even one of two nearest
RoundToDouble(x) ==
  LET k == Len(x.mant) - MantissaBits
  IN IF k <= 0 THEN x
     ELSE LET kept == SubSeq(x.mant, k + 1, Len(x.mant))
              guard == x.mant[k]
              sticky == k >= 2
              up == guard = 1 /\ (sticky \/ kept[1] = 1)
          IN Canonical(x.sign,
                       IF up THEN AddBits(kept, <<1>>) ELSE kept,
                       x.exp + k)

\* a + b and a - b of two numbers
DoubleAdd(x, y) == RoundToDouble(ExactSum(x, y))

DoubleSub(x, y) == RoundToDouble(ExactSum(x, Negated(y)))

DoubleLess(x, y) == ExactSum(x, Negated(y)).sign < 0

DoubleMax(x, y) == IF DoubleLess(x, y) THEN y ELSE x

DoubleMin(x, y) == IF DoubleLess(y, x) THEN y ELSE x

\* the bits hi..lo of the quotient of a divided by n, most significant
\* first, then the remainder; rem is the remainder of the bits above hi
RECURSIVE DivRange(_, _, _, _, _)
DivRange(a, n, lo, hi, rem) ==
  IF lo = hi
  THEN LET cur == 2 * rem + a[lo] IN <<cur \div n, cur % n>>
  ELSE LET mid == (lo + hi) \div 2
           high == DivRange(a, n, mid + 1, hi, rem)
       IN Front(high) \o DivRange(a, n, lo, mid, Last(high))

Reversed(s) == [i \in 1..Len(s) |-> s[Len(s) + 1 - i]]

\* x / n for a whole number n in 1..SimScale: the quotient is carried to
\* QuotientBits more bits than x has, and a remainder becomes one more bit
DoubleDiv(x, n) ==
  IF x.sign = 0 THEN DoubleZero
  ELSE LET d == DivRange(ShiftLeft(x.mant, QuotientBits), n,
                         1, Len(x.mant) + QuotientBits, 0)
           q == Reversed(Front(d))
       IN RoundToDouble(
            IF Last(d) = 0 THEN Canonical(x.sign, q, x.exp - QuotientBits)
            ELSE Canonical(x.sign, <<1>> \o q, x.exp - QuotientBits - 1))

RECURSIVE IntBits(_)
IntBits(n) == IF n = 0 THEN <<>> ELSE <<n % 2>> \o IntBits(n \div 2)

\* the number of a whole number
DoubleOf(n) == Canonical(IF n < 0 THEN -1 ELSE 1, IntBits(Abs(n)), 0)

\* the number nearest to units / SimScale: 0.05 for 1, 0.25 for 5
SimDouble(units) == DoubleDiv(DoubleOf(units), SimScale)

\* values.reduce((sum, value) => sum + value, sum)
RECURSIVE DoubleTotal(_, _)
DoubleTotal(values, sum) ==
  IF values = <<>> THEN sum
  ELSE DoubleTotal(Tail(values), DoubleAdd(sum, Head(values)))

\* smooth over numbers
smoothDouble(values, windowRadius) ==
  IF Len(values) = 0 \/ windowRadius <= 0 THEN values
  ELSE [index \in 1..Len(values) |->
          LET start == Max(1, index - windowRadius)
              end == Min(Len(values), index + windowRadius)
              slice == SubSeq(values, start, end)
              total == DoubleTotal(slice, DoubleZero)
          IN DoubleDiv(total, Len(slice))]

\* The statistics of detectBreakPoints for stdMultiplier = 0, where
\* mean - stdMultiplier * std is mean.  std > 0 exactly when a square
\* Math.pow(sim - mean, 2) is not 0, that is when a smoothed value differs
\* from the mean.
StatsDouble(similarities, opts) ==
  LET smoothed == smoothDouble(similarities, opts.smoothWindow)
      mean == DoubleDiv(DoubleTotal(smoothed, DoubleZero), Len(smoothed))
      stdPositive == \E j \in 1..Len(smoothed) : smoothed[j] # mean
      dynamicThreshold ==
        IF stdPositive THEN mean ELSE DoubleSub(mean, SimDouble(1))
  IN [smoothed |-> smoothed, mean |-> mean,
      threshold |-> DoubleMax(DoubleOf(-1), DoubleMin(dynamicThreshold, mean))]

MarkConditionsDouble(stats, sentenceCount, opts, st) ==
  LET i == st.i
      current == stats.smoothed[i + 1]
      previous == IF i > 0 THEN stats.smoothed[i] ELSE stats.mean
      drop == DoubleSub(previous, current)
  IN [shouldBreak |->
        \/ /\ DoubleLess(SimDouble(opts.similarityDrop), drop)
           /\ DoubleLess(current, previous)
        \/ DoubleLess(current, stats.threshold),
      enoughSentences |-> i + 1 - st.lastBreak >= 2,
      notTooCloseToEnd |-> i + 1 < sentenceCount - 1]

RECURSIVE BreakLoopDouble(_, _, _, _)
BreakLoopDouble(stats, sentenceCount, opts, st) ==
  IF st.i >= Len(stats.smoothed) THEN st.breakPoints
  ELSE LET c == MarkConditionsDouble(stats, sentenceCount, opts, st)
       IN IF c.shouldBreak /\ c.enoughSentences /\ c.notTooCloseToEnd
          THEN BreakLoopDouble(stats, sentenceCount, opts,
                               [i |-> st.i + 1, lastBreak |-> st.i + 1,
                                breakPoints |-> Append(st.breakPoints, st.i + 1)])
          ELSE BreakLoopDouble(stats, sentenceCount, opts,
                               [st EXCEPT !.i = st.i + 1])

\* detectBreakPoints over similarities given in units of 1 / SimScale
detectBreakPointsDouble(similarities, sentenceCount, opts) ==
  IF Len(similarities) = 0 THEN <<>>
  ELSE BreakLoopDouble(
         StatsDouble([i \in 1..Len(similarities) |-> SimDouble(similarities[i])],
                     opts),
         sentenceCount, opts, [i |-> 0, lastBreak |-> 0, breakPoints |-> <<>>])

\* the loop of buildSegments over the sorted, de-duplicated breakpoints
RECURSIVE SegmentLoop(_, _, _)
SegmentLoop(sentences, sortedBreaks, start) ==
  IF sortedBreaks = {}
  THEN LET tail == Trim(Join(SubSeq(sentences, start + 1, Len(sentences)), <<" ">>))
       IN IF tail # <<>> THEN <<tail>> ELSE <<>>
  ELSE
    LET bp == SetMin(sortedBreaks)
        rest == sortedBreaks \ {bp}
    IN IF bp <= start \/ bp >= Len(sentences)
       THEN SegmentLoop(sentences, rest, start)
       ELSE LET piece == Trim(Join(SubSeq(sentences, start + 1, bp), <<" ">>))
            IN (IF piece # <<>> THEN <<piece>> ELSE <<>>)
                 \o SegmentLoop(sentences, rest, bp)

\* buildSegments that starts the first slice one sentence late
buildSegments_OffByOne(sentences, breakPoints) ==
  IF Len(breakPoints) = 0 THEN <<Trim(Join(sentences, <<" ">>))>>
  ELSE SegmentLoop(sentences, {breakPoints[k] : k \in 1..Len(breakPoints)}, 1)

buildSegments(sentences, breakPoints) ==
  IF Len(breakPoints) = 0 THEN <<Trim(Join(sentences, <<" ">>))>>
  ELSE SegmentLoop(sentences, {breakPoints[k] : k \in 1..Len(breakPoints)}, 0)

\* ------------------------------------------------------------------------
\* Oversize bisection (chunking.ts 425-483)
\* ------------------------------------------------------------------------
EdgeMargin == 200

\* SplitLoop that keeps the first candidate away from the edges, however far
\* from the midpoint
RECURSIVE SplitLoop_FirstValid(_, _, _, _)
SplitLoop_FirstValid(candidates, midpoint, len, st) ==
  IF candidates = <<>> THEN st.best
  ELSE
    LET index == Head(candidates)
        tooCloseToEdge == index < EdgeMargin \/ index > len - EdgeMargin
    IN IF ~tooCloseToEdge THEN index + 1
       ELSE SplitLoop_FirstValid(Tail(candidates), midpoint, len, st)

\* the loop of findSplitPoint over the candidates; st.bestDistance = -1
\* stands for Number.POSITIVE_INFINITY
RECURSIVE SplitLoop(_, _, _, _)
SplitLoop(candidates, midpoint, len, st) ==
  IF candidates = <<>> THEN st.best
  ELSE
    LET index == Head(candidates)
        distance == Abs(midpoint - index)
        tooCloseToEdge == index < EdgeMargin \/ index > len - EdgeMargin
    IN IF ~tooCloseToEdge /\ (st.bestDistance = -1 \/ distance < st.bestDistance)
       THEN SplitLoop(Tail(candidates), midpoint, len,
                      [best |-> index + 1, bestDistance |-> distance])
       ELSE SplitLoop(Tail(candidates), midpoint, len, st)

\* findSplitPoint without the fallback to the midpoint
findSplitPoint_NoFallback(text) ==
  LET midpoint == Len(text) \div 2
      all == << LastIndexOf(text, <<"\n", "\n">>, midpoint),
                IndexOf(text, <<"\n", "\n">>, midpoint + 1),
                LastIndexOf(text, <<".", " ">>, midpoint),
                IndexOf(text, <<".", " ">>, midpoint + 1),
                LastIndexOf(text, <<"!", " ">>, midpoint),
                LastIndexOf(text, <<"?", " ">>, midpoint) >>
      candidates == SelectSeq(all, LAMBDA index : index > 0)
  IN SplitLoop(candidates, midpoint, Len(text), [best |-> -1, bestDistance |-> -1])

findSplitPoint(text) ==
  LET midpoint == Len(text) \div 2
      all == << LastIndexOf(text, <<"\n", "\n">>, midpoint),
                IndexOf(text, <<"\n", "\n">>, midpoint + 1),
                LastIndexOf(text, <<".", " ">>, midpoint),
                IndexOf(text, <<".", " ">>, midpoint + 1),
                LastIndexOf(text, <<"!", " ">>, midpoint),
                LastIndexOf(text, <<"?", " ">>, midpoint) >>
      candidates == SelectSeq(all, LAMBDA index : index > 0)
      best == SplitLoop(candidates, midpoint, Len(text), [best |-> -1, bestDistance |-> -1])
  IN IF best = -1 THEN midpoint ELSE best

\* ------------------------------------------------------------------------
\* Collaborators (openai.ts)
\* ------------------------------------------------------------------------
\* usage.prompt_tokens of the chat completion that countTokens issues: the
\* tokens of the text plus the framing of the one-message prompt
ApiTokens(text) == (Len(text) + 2) \div 3 + 7

\* the estimate rounded down instead of up
FallbackTokens_Floor(text) == Len(text) \div 4

\* Math.ceil(text.length / 4), the estimate of countTokens' catch block
FallbackTokens(text) == (Len(text) + 3) \div 4

\* What countTokens can resolve to for a text: the reported prompt tokens,
\* 0 when the response carries no usage, or the estimate when the call
\* (with its retries) failed.  It never rejects.
countTokens(text, mayFail) ==
  {[value |-> ApiTokens(text), source |-> "api"]}
    \cup (IF mayFail
          THEN {[value |-> 0, source |-> "nousage"],
                [value |-> FallbackTokens(text), source |-> "fallback"]}
          ELSE {})

\* tokensFor that never finds a text in the cache
tokensFor_NoCache(cch, text, mayFail) == countTokens(text, mayFail)

\* tokensFor of mergeSegments: the cached count when there is one, else
\* whatever countTokens resolves to
tokensFor(cch, text, mayFail) ==
  IF text \in DOMAIN cch
  THEN {[value |-> cch[text].value, source |-> "cache"]}
  ELSE countTokens(text, mayFail)

\* cache.set(text, value); source is kept for the record only
CacheSet(cch, text, o) ==
  IF o.source = "cache" THEN cch
  ELSE [t \in DOMAIN cch \cup {text} |->
          IF t = text THEN [value |-> o.value, source |-> o.source] ELSE cch[t]]

\* the vectors the embedding generator may return
Vectors == {<<3, 4>>, <<4, -3>>, <<0, 0>>}

\* ------------------------------------------------------------------------
\* Configuration (chunking.ts 200-207, 219)
\* ------------------------------------------------------------------------
DEFAULT_OPTIONS ==
  [targetTokens |-> 1200, maxTokens |-> 1800, minTokens |-> 400,
   similarityDrop |-> 5, stdMultiplier |-> 1, smoothWindow |-> 2]

\* { ...DEFAULT_OPTIONS, ...opts }
ResolveOptions(o) ==
  [k \in DOMAIN DEFAULT_OPTIONS |-> IF k \in DOMAIN o THEN o[k] ELSE DEFAULT_OPTIONS[k]]

\* ------------------------------------------------------------------------
\* Size normalisation (chunking.ts 339-453), one step per awaited count
\* ------------------------------------------------------------------------
Blank == <<"\n", "\n">>

NoLocals ==
  [pc |-> "idle", segments |-> <<>>, stack |-> <<>>, parts |-> <<>>,
   current |-> <<>>, sentenceTally |-> 0, chunks |-> <<>>,
   normalized |-> <<>>, index |-> 0,
   unsplit |-> {}]   \* history: the oversized texts enforceMaxSize returned whole

\* the head of the loop of normalizeSmallChunks: its return once every chunk
\* has been scanned, else the token count of the next chunk
NormalizeNext(r) ==
  IF r.index > Len(r.chunks) THEN [r EXCEPT !.pc = "done"]
  ELSE [r EXCEPT !.pc = "normTokens"]

\* after the loop over the segments: the final flush of mergeSegments and
\* the entry of normalizeSmallChunks
FinishMerge(r) ==
  LET chs == IF Trim(r.current) # <<>>
             THEN Append(r.chunks, [text |-> r.current, sentenceCount |-> r.sentenceTally])
             ELSE r.chunks
  IN IF Len(chs) <= 1
     THEN [r EXCEPT !.chunks = chs, !.normalized = chs, !.pc = "done"]
     ELSE [r EXCEPT !.chunks = chs, !.normalized = <<>>, !.index = 1,
                    !.pc = "normTokens"]

\* the head of the loop over the segments: skip blank segments, start
\* enforceMaxSize on the next one, or leave the loop
RECURSIVE NextSegment(_)
NextSegment(r) ==
  IF r.segments = <<>> THEN FinishMerge(r)
  ELSE LET trimmed == Trim(Head(r.segments))
       IN IF trimmed = <<>>
          THEN NextSegment([r EXCEPT !.segments = Tail(r.segments)])
          ELSE [r EXCEPT !.segments = Tail(r.segments), !.stack = <<trimmed>>,
                         !.parts = <<>>, !.pc = "enforce"]

\* the head of the loop over the parts of a segment
NextPart(r) ==
  IF r.parts = <<>> THEN NextSegment(r) ELSE [r EXCEPT !.pc = "accumulate"]

\* enforceMaxSize that splits wherever findSplitPoint says
enforceMaxSize_NoEdgeCheck(r, tokenCount, maxTokens) ==
  LET text == Head(r.stack)
      splitIndex == findSplitPoint(text)
      left == Trim(Slice(text, 0, splitIndex))
      right == Trim(Slice(text, splitIndex, Len(text)))
      halves == (IF left # <<>> THEN <<left>> ELSE <<>>)
                  \o (IF right # <<>> THEN <<right>> ELSE <<>>)
      whole == [r EXCEPT !.stack = Tail(r.stack), !.parts = Append(r.parts, text)]
      unsplit == [whole EXCEPT !.unsplit = @ \cup {text}]
      r2 == IF tokenCount <= maxTokens THEN whole
            ELSE IF halves = <<>> THEN unsplit
            ELSE [r EXCEPT !.stack = halves \o Tail(r.stack)]
  IN IF r2.stack = <<>> THEN NextPart(r2) ELSE r2

\* enforceMaxSize on the text on top of the stack, given its token count;
\* the recursion on left and right is the stack, depth first
enforceMaxSize(r, tokenCount, maxTokens) ==
  LET text == Head(r.stack)
      splitIndex == findSplitPoint(text)
      left == Trim(Slice(text, 0, splitIndex))
      right == Trim(Slice(text, splitIndex, Len(text)))
      halves == (IF left # <<>> THEN <<left>> ELSE <<>>)
                  \o (IF right # <<>> THEN <<right>> ELSE <<>>)
      whole == [r EXCEPT !.stack = Tail(r.stack), !.parts = Append(r.parts, text)]
      unsplit == [whole EXCEPT !.unsplit = @ \cup {text}]
      r2 == IF tokenCount <= maxTokens THEN whole
            ELSE IF splitIndex <= 0 \/ splitIndex >= Len(text) - 1 THEN unsplit
            ELSE IF halves = <<>> THEN unsplit
            ELSE [r EXCEPT !.stack = halves \o Tail(r.stack)]
  IN IF r2.stack = <<>> THEN NextPart(r2) ELSE r2

\* Accumulate without the flush on overflow: the part is always appended
Accumulate_NoOverflowFlush(r, candidateTokens, opts) ==
  LET part == Head(r.parts)
      candidate == IF r.current # <<>> THEN r.current \o Blank \o part ELSE part
      r2 ==
        IF candidateTokens >= opts.targetTokens
        THEN [r EXCEPT
                !.chunks = Append(r.chunks,
                             [text |-> candidate,
                              sentenceCount |-> r.sentenceTally + countSentences(part)]),
                !.current = <<>>,
                !.sentenceTally = 0]
        ELSE [r EXCEPT !.current = candidate,
                       !.sentenceTally = r.sentenceTally + countSentences(part)]
  IN NextPart([r2 EXCEPT !.parts = Tail(r.parts)])

\* the body of the loop over the parts, given the candidate's token count
Accumulate(r, candidateTokens, opts) ==
  LET part == Head(r.parts)
      candidate == IF r.current # <<>> THEN r.current \o Blank \o part ELSE part
      r2 ==
        IF candidateTokens > opts.maxTokens /\ r.current # <<>>
        THEN [r EXCEPT
                !.chunks = IF Trim(r.current) # <<>>
                           THEN Append(r.chunks, [text |-> r.current,
                                                  sentenceCount |-> r.sentenceTally])
                           ELSE r.chunks,
                !.current = part,
                !.sentenceTally = countSentences(part)]
        ELSE IF candidateTokens >= opts.targetTokens
        THEN [r EXCEPT
                !.chunks = Append(r.chunks,
                             [text |-> candidate,
                              sentenceCount |-> r.sentenceTally + countSentences(part)]),
                !.current = <<>>,
                !.sentenceTally = 0]
        ELSE [r EXCEPT !.current = candidate,
                       !.sentenceTally = r.sentenceTally + countSentences(part)]
  IN NextPart([r2 EXCEPT !.parts = Tail(r.parts)])

\* the candidate whose tokens the loop over the parts awaits
Candidate(r) ==
  IF r.current # <<>> THEN r.current \o Blank \o Head(r.parts) ELSE Head(r.parts)

\* NormalizeChunk that keeps every chunk as it is
NormalizeChunk_NeverMerge(r, tokens, opts) ==
  NormalizeNext([r EXCEPT !.normalized = Append(r.normalized, r.chunks[r.index]),
                          !.index = r.index + 1])

\* normalizeSmallChunks on chunk number index, given its token count
NormalizeChunk(r, tokens, opts) ==
  IF tokens < opts.minTokens /\ Len(r.normalized) > 0
  THEN [r EXCEPT !.pc = "normMerged"]
  ELSE NormalizeNext([r EXCEPT !.normalized = Append(r.normalized, r.chunks[r.index]),
                               !.index = r.index + 1])

\* mergedText of normalizeSmallChunks
MergedText(r) ==
  r.normalized[Len(r.normalized)].text \o Blank \o r.chunks[r.index].text

\* NormalizeMerged that merges whatever the merged pair's token count is
NormalizeMerged_AlwaysMerge(r, mergedTokens, opts) ==
  LET previous == r.normalized[Len(r.normalized)]
      chunk == r.chunks[r.index]
  IN NormalizeNext(
       [r EXCEPT !.normalized[Len(r.normalized)] =
                   [text |-> MergedText(r),
                    sentenceCount |-> previous.sentenceCount + chunk.sentenceCount],
                 !.index = r.index + 1])

\* normalizeSmallChunks after the merged pair's token count is known
NormalizeMerged(r, mergedTokens, opts) ==
  LET previous == r.normalized[Len(r.normalized)]
      chunk == r.chunks[r.index]
  IN NormalizeNext(
       IF mergedTokens <= opts.maxTokens
       THEN [r EXCEPT !.normalized[Len(r.normalized)] =
                        [text |-> MergedText(r),
                         sentenceCount |-> previous.sentenceCount + chunk.sentenceCount],
                      !.index = r.index + 1]
       ELSE [r EXCEPT !.normalized = Append(r.normalized, chunk),
                      !.index = r.index + 1])

\* ------------------------------------------------------------------------
\* Result fusion (src/unnamed/part_003 164-292).  Scores are exact
\* rationals [n, d] in lowest terms with d > 0; Math.exp is a fixed-point
\* approximation.
\* ------------------------------------------------------------------------
RECURSIVE Euclid(_, _)
Euclid(a, b) == IF b = 0 THEN a ELSE Euclid(b, a % b)

Rat(n, d) ==
  IF n = 0 THEN [n |-> 0, d |-> 1]
  ELSE LET g == Euclid(Abs(n), Abs(d))
       IN IF d > 0 THEN [n |-> n \div g, d |-> d \div g]
          ELSE [n |-> (-n) \div g, d |-> (-d) \div g]

RZero == Rat(0, 1)
ROne == Rat(1, 1)
RAdd(a, b) == Rat(a.n * b.d + b.n * a.d, a.d * b.d)
RSub(a, b) == Rat(a.n * b.d - b.n * a.d, a.d * b.d)
RMul(a, b) == Rat(a.n * b.n, a.d * b.d)
RDiv(a, b) == Rat(a.n * b.d, a.d * b.n)
RLess(a, b) == a.n * b.d < b.n * a.d
RLeq(a, b) == a.n * b.d <= b.n * a.d

RECURSIVE RSum(_)
RSum(values) == IF values = <<>> THEN RZero ELSE RAdd(Head(values), RSum(Tail(values)))

RECURSIVE RMax(_)
RMax(values) ==
  IF Len(values) = 1 THEN values[1]
  ELSE LET m == RMax(Tail(values)) IN IF RLess(m, Head(values)) THEN Head(values) ELSE m

RECURSIVE RMin(_)
RMin(values) ==
  IF Len(values) = 1 THEN values[1]
  ELSE LET m == RMin(Tail(values)) IN IF RLess(Head(values), m) THEN Head(values) ELSE m

\* raw scores are given in tenths
ScoreScale == 10

\* the resolution of the approximation of Math.exp
ExpUnits == 100

\* the terms from number k on of the series of e^(-a/b), in absolute value
\* and in units of 1 / (100 * ExpUnits), with alternating signs
RECURSIVE ExpSeries(_, _, _, _)
ExpSeries(a, b, k, term) ==
  IF term = 0 THEN 0
  ELSE term - ExpSeries(a, b, k + 1, (term * a) \div (b * (k + 1)))

\* Math.exp(x) for x <= 0, rounded to 1 / ExpUnits
Exp(x) ==
  Rat((ExpSeries(-x.n, x.d, 0, 100 * ExpUnits) + 50) \div 100, ExpUnits)

\* Array.prototype.sort((a, b) => b - a) of numbers, and the stable
\* Array.prototype.sort((a, b) => b.score - a.score) of results
RECURSIVE InsertDesc(_, _)
InsertDesc(sorted, x) ==
  IF sorted = <<>> THEN <<x>>
  ELSE IF RLess(Head(sorted), x) THEN <<x>> \o sorted
  ELSE <<Head(sorted)>> \o InsertDesc(Tail(sorted), x)

RECURSIVE SortDesc(_)
SortDesc(values) ==
  IF values = <<>> THEN <<>>
  ELSE InsertDesc(SortDesc(SubSeq(values, 1, Len(values) - 1)), values[Len(values)])

RECURSIVE InsertByScore(_, _)
InsertByScore(sorted, x) ==
  IF sorted = <<>> THEN <<x>>
  ELSE IF RLess(Head(sorted).score, x.score) THEN <<x>> \o sorted
  ELSE <<Head(sorted)>> \o InsertByScore(Tail(sorted), x)

RECURSIVE SortByScore(_)
SortByScore(results) ==
  IF results = <<>> THEN <<>>
  ELSE InsertByScore(SortByScore(SubSeq(results, 1, Len(results) - 1)),
                     results[Len(results)])

\* the keys of a Map filled from the results, in insertion order
RECURSIVE KeysOf(_)
KeysOf(results) ==
  IF results = <<>> THEN <<>>
  ELSE LET before == KeysOf(SubSeq(results, 1, Len(results) - 1))
           id == results[Len(results)].id
       IN IF \E k \in 1..Len(before) : before[k] = id THEN before ELSE Append(before, id)

\* normalizeScores that maps every score of a flat list to 0
normalizeScores_FlatIsZero(results) ==
  LET scores == [k \in 1..Len(results) |-> results[k].score]
      maxScore == RMax(scores)
      minScore == RMin(scores)
      denominator == RSub(maxScore, minScore)
      value(r) == IF denominator = RZero THEN RZero
                  ELSE RDiv(RSub(r.score, minScore), denominator)
      last(id) == SetMax({k \in 1..Len(results) : results[k].id = id})
  IN [id \in {results[k].id : k \in 1..Len(results)} |-> value(results[last(id)])]

\* the Map of normalizeScores: for every id the normalised score of the
\* last result with that id
normalizeScores(results) ==
  LET scores == [k \in 1..Len(results) |-> results[k].score]
      maxScore == RMax(scores)
      minScore == RMin(scores)
      denominator == RSub(maxScore, minScore)
      value(r) == IF denominator = RZero
                  THEN (IF maxScore # RZero THEN ROne ELSE RZero)
                  ELSE RDiv(RSub(r.score, minScore), denominator)
      last(id) == SetMax({k \in 1..Len(results) : results[k].id = id})
  IN [id \in {results[k].id : k \in 1..Len(results)} |-> value(results[last(id)])]

TopK == 5

computeConfidence(results, normalizedScores) ==
  IF DOMAIN normalizedScores = {} THEN RZero
  ELSE LET keys == KeysOf(results)
           sorted == SortDesc([k \in 1..Len(keys) |-> normalizedScores[keys[k]]])
           k == Min(TopK, Len(sorted))
       IN IF k = 0 THEN RZero ELSE RDiv(RSum(SubSeq(sorted, 1, k)), Rat(k, 1))

\* softmax that divides by the largest exponential instead of the sum
softmax_DivideByMax(values) ==
  IF Len(values) = 0 THEN <<>>
  ELSE LET max == RMax(values)
           expValues == [k \in 1..Len(values) |-> Exp(RSub(values[k], max))]
       IN [k \in 1..Len(values) |-> RDiv(expValues[k], RMax(expValues))]

softmax(values) ==
  IF Len(values) = 0 THEN <<>>
  ELSE LET max == RMax(values)
           expValues == [k \in 1..Len(values) |-> Exp(RSub(values[k], max))]
           sum == RSum(expValues)
       IN IF sum = RZero
          THEN [k \in 1..Len(values) |-> Rat(1, Len(values))]
          ELSE [k \in 1..Len(values) |-> RDiv(expValues[k], sum)]

\* computeModalityWeights that weighs each list by its own confidence
computeModalityWeights_Confidences(hasTextResults, hasImageResults, textConfidence, imageConfidence) ==
  IF ~hasTextResults /\ ~hasImageResults
  THEN [textWeight |-> Rat(1, 2), imageWeight |-> Rat(1, 2)]
  ELSE IF ~hasTextResults THEN [textWeight |-> RZero, imageWeight |-> ROne]
  ELSE IF ~hasImageResults THEN [textWeight |-> ROne, imageWeight |-> RZero]
  ELSE [textWeight |-> textConfidence, imageWeight |-> imageConfidence]

computeModalityWeights(hasTextResults, hasImageResults, textConfidence, imageConfidence) ==
  IF ~hasTextResults /\ ~hasImageResults
  THEN [textWeight |-> Rat(1, 2), imageWeight |-> Rat(1, 2)]
  ELSE IF ~hasTextResults THEN [textWeight |-> RZero, imageWeight |-> ROne]
  ELSE IF ~hasImageResults THEN [textWeight |-> ROne, imageWeight |-> RZero]
  ELSE LET weights == softmax(<<textConfidence, imageConfidence>>)
       IN [textWeight |-> weights[1], imageWeight |-> weights[2]]

\* combined.get(id): the position of the entry of the id, 0 when there is none
MapGet(combined, id) ==
  IF \E k \in 1..Len(combined) : combined[k].result.id = id
  THEN CHOOSE k \in 1..Len(combined) : combined[k].result.id = id
  ELSE 0

\* MapSet that adds an entry even if the id has one
MapSet_AlwaysAppend(combined, id, entry) == Append(combined, entry)

\* combined.set(id, entry): an id already in the Map keeps its position
MapSet(combined, id, entry) ==
  LET k == MapGet(combined, id)
  IN IF k = 0 THEN Append(combined, entry) ELSE [combined EXCEPT ![k] = entry]

\* FuseText that leaves the text weight out
RECURSIVE FuseText_Unweighted(_, _, _, _)
FuseText_Unweighted(textResults, textNorm, textWeight, combined) ==
  IF textResults = <<>> THEN combined
  ELSE LET result == Head(textResults)
           fusedScore == textNorm[result.id]
       IN FuseText_Unweighted(Tail(textResults), textNorm, textWeight,
                              MapSet(combined, result.id,
                                     [result |-> [result EXCEPT !.score = fusedScore],
                                      fusedScore |-> fusedScore]))

\* the loop over textResults
RECURSIVE FuseText(_, _, _, _)
FuseText(textResults, textNorm, textWeight, combined) ==
  IF textResults = <<>> THEN combined
  ELSE LET result == Head(textResults)
           fusedScore == RMul(textWeight, textNorm[result.id])
       IN FuseText(Tail(textResults), textNorm, textWeight,
                   MapSet(combined, result.id,
                          [result |-> [result EXCEPT !.score = fusedScore],
                           fusedScore |-> fusedScore]))

\* MergeExisting that keeps the result the entry had, whatever its modality
MergeExisting_KeepExisting(existing, result, additionalScore) ==
  LET fusedScore == RAdd(existing.fusedScore, additionalScore)
  IN [result |-> [existing.result EXCEPT !.score = fusedScore],
      fusedScore |-> fusedScore]

\* MergeExisting that drops the score the entry had
MergeExisting_Overwrite(existing, result, additionalScore) ==
  [result |->
     IF existing.result.metadata.modality = "image" /\ result.metadata.modality # "image"
     THEN [result EXCEPT !.score = additionalScore]
     ELSE [existing.result EXCEPT !.score = additionalScore],
   fusedScore |-> additionalScore]

\* the entry of an id that is in the Map already, given the image result
MergeExisting(existing, result, additionalScore) ==
  LET fusedScore == RAdd(existing.fusedScore, additionalScore)
  IN [result |->
        IF existing.result.metadata.modality = "image" /\ result.metadata.modality # "image"
        THEN [result EXCEPT !.score = fusedScore]
        ELSE [existing.result EXCEPT !.score = fusedScore],
      fusedScore |-> fusedScore]

\* FuseImage that leaves the image weight out
RECURSIVE FuseImage_Unweighted(_, _, _, _)
FuseImage_Unweighted(imageResults, imageNorm, imageWeight, combined) ==
  IF imageResults = <<>> THEN combined
  ELSE LET result == Head(imageResults)
           additionalScore == imageNorm[result.id]
           k == MapGet(combined, result.id)
       IN FuseImage_Unweighted(Tail(imageResults), imageNorm, imageWeight,
                    MapSet(combined, result.id,
                           IF k # 0 THEN MergeExisting(combined[k], result, additionalScore)
                           ELSE [result |-> [result EXCEPT !.score = additionalScore],
                                 fusedScore |-> additionalScore]))

\* the loop over imageResults
RECURSIVE FuseImage(_, _, _, _)
FuseImage(imageResults, imageNorm, imageWeight, combined) ==
  IF imageResults = <<>> THEN combined
  ELSE LET result == Head(imageResults)
           additionalScore == RMul(imageWeight, imageNorm[result.id])
           k == MapGet(combined, result.id)
       IN FuseImage(Tail(imageResults), imageNorm, imageWeight,
                    MapSet(combined, result.id,
                           IF k # 0 THEN MergeExisting(combined[k], result, additionalScore)
                           ELSE [result |-> [result EXCEPT !.score = additionalScore],
                                 fusedScore |-> additionalScore]))

\* the weights fuseModalityResults asks for when both lists have results
WeightsOf(textResults, imageResults) ==
  LET textNorm == normalizeScores(textResults)
      imageNorm == normalizeScores(imageResults)
  IN computeModalityWeights(Len(textResults) > 0, Len(imageResults) > 0,
                            computeConfidence(textResults, textNorm),
                            computeConfidence(imageResults, imageNorm))

\* Array.from(combined.values()) with the fused score of every entry
Combined(textResults, imageResults) ==
  LET weights == WeightsOf(textResults, imageResults)
      combined == FuseImage(imageResults, normalizeScores(imageResults),
                            weights.imageWeight,
                            FuseText(textResults, normalizeScores(textResults),
                                     weights.textWeight, <<>>))
  IN [k \in 1..Len(combined) |->
        [combined[k].result EXCEPT !.score = combined[k].fusedScore]]

\* fuseModalityResults that normalises the scores of a list returned alone
fuseModalityResults_NormalizedAlone(textResults, imageResults, limit) ==
  LET alone(results) ==
        Slice([k \in 1..Len(results) |->
                 [results[k] EXCEPT !.score = normalizeScores(results)[results[k].id]]],
              0, limit)
  IN IF Len(imageResults) = 0 THEN alone(textResults)
     ELSE IF Len(textResults) = 0 THEN alone(imageResults)
     ELSE Slice(SortByScore(Combined(textResults, imageResults)), 0, limit)

\* fuseModalityResults without the sort of the merged results
fuseModalityResults_Unsorted(textResults, imageResults, limit) ==
  IF Len(imageResults) = 0 THEN Slice(textResults, 0, limit)
  ELSE IF Len(textResults) = 0 THEN Slice(imageResults, 0, limit)
  ELSE Slice(Combined(textResults, imageResults), 0, limit)

fuseModalityResults(textResults, imageResults, limit) ==
  IF Len(imageResults) = 0 THEN Slice(textResults, 0, limit)
  ELSE IF Len(textResults) = 0 THEN Slice(imageResults, 0, limit)
  ELSE Slice(SortByScore(Combined(textResults, imageResults)), 0, limit)

\* ------------------------------------------------------------------------
\* Inputs
\* ------------------------------------------------------------------------
Procs == {1, 2}

\* a sentence of n characters: a capital, lower-case letters, a full stop
Sentence(n) == <<"A">> \o [i \in 1..(n - 2) |-> "a"] \o <<".">>

CrLf == <<"\r", "\n">>

\* a file with CRLF line ends: sentences of the given lengths, two to a
\* paragraph, the paragraphs separated by a blank line
RECURSIVE Document(_)
Document(lens) ==
  IF lens = <<>> THEN CrLf
  ELSE IF Len(lens) = 1 THEN Sentence(lens[1]) \o CrLf
  ELSE IF Len(lens) = 2 THEN Sentence(lens[1]) \o <<" ">> \o Sentence(lens[2]) \o CrLf
  ELSE Sentence(lens[1]) \o <<" ">> \o Sentence(lens[2]) \o CrLf \o CrLf
         \o Document(SubSeq(lens, 3, Len(lens)))

\* up to maxCount sentences: some of one length, then some of the other
LengthLists(maxCount, first, second) ==
  {[i \in 1..k |-> IF i <= a THEN first ELSE second] : k \in 0..maxCount, a \in 0..maxCount}

SizeOptions ==
  { [smoothWindow |-> 2],
    [minTokens |-> 20, targetTokens |-> 60, maxTokens |-> 85, smoothWindow |-> 0],
    [minTokens |-> 40, targetTokens |-> 50, maxTokens |-> 60, smoothWindow |-> 0] }

\* maxTokens below the count of any text: every piece is oversized
TinyOptions == [minTokens |-> 2, targetTokens |-> 4, maxTokens |-> 7]

Inputs ==
  {[content |-> Document(l), opts |-> o] :
      l \in LengthLists(MaxSentences, LongLen, ShortLen)
               \cup LengthLists(MaxSentences, ShortLen, LongLen),
      o \in SizeOptions}
  \cup
  {[content |-> Document(l), opts |-> TinyOptions] :
      l \in LengthLists(2, TinyLen, TinyLen)}

\* ------------------------------------------------------------------------
\* State
\* ------------------------------------------------------------------------
VARIABLES
  content,       \* content[p]: the document passed to invocation p
  opts,          \* opts[p]: the options passed to invocation p
  inv,           \* inv[p]: position and locals of mergeSegments
  cache,         \* cache[p]: the token cache of invocation p
  result,        \* result[p]: the chunk list returned to the caller
  error,         \* error[p]: the fault the call was rejected with
  detected,      \* detected[p]: the breakpoints detected from the vectors returned
  embedCalls,    \* embedCalls[p]: calls of generateEmbeddings
  tokenCalls,    \* tokenCalls[p]: calls of countTokens
  faults,        \* failed or usage-less token calls so far
  bd,            \* the boundary detector applied to a similarity series
  fu,            \* one call of fuseModalityResults or of searchDocumentation
  rt,            \* one call of retry
  sp,            \* findSplitPoint and enforceMaxSize applied to a text
  js             \* the job store of one process and its background worker

mainVars == <<content, opts, inv, cache, result, error, detected,
              embedCalls, tokenCalls, faults>>
vars == <<content, opts, inv, cache, result, error, detected,
          embedCalls, tokenCalls, faults, bd, fu, rt, sp, js>>

EmptyCache == [t \in {} |-> 0]

config(p) == ResolveOptions(opts[p])
pc(p) == inv[p].pc

InitWith(inputOf) ==
  /\ content = [p \in Procs |-> inputOf[p].content]
  /\ opts = [p \in Procs |-> inputOf[p].opts]
  /\ inv = [p \in Procs |->
              [NoLocals EXCEPT !.pc = IF inputOf[p].run THEN "start" ELSE "idle"]]
  /\ cache = [p \in Procs |-> EmptyCache]
  /\ result = [p \in Procs |-> <<>>]
  /\ error = [p \in Procs |-> "none"]
  /\ detected = [p \in Procs |-> <<>>]
  /\ embedCalls = [p \in Procs |-> 0]
  /\ tokenCalls = [p \in Procs |-> 0]
  /\ faults = 0

NotRun == [content |-> <<>>, opts |-> [smoothWindow |-> 2], run |-> FALSE]

FuIdle ==
  [phase |-> "idle", textResults |-> <<>>, imageResults |-> <<>>, limit |-> 0,
   hasImageIndex |-> FALSE, weights |-> <<>>, normalized |-> <<>>, output |-> <<>>]

RtIdle ==
  [pc |-> "idle", module |-> "none", predicate |-> "none", attempt |-> 0,
   thrown |-> <<>>, slept |-> <<>>, outcome |-> "none"]

SpIdle ==
  [phase |-> "idle", text |-> <<>>, splitIndex |-> 0,
   estimator |-> "none", run |-> NoLocals]

\* the jobs of jobs.json and the processes that share the file
JobIds == {"j1", "j2"}

Pids == {1, 2}

\* a job as far as the store and the worker look at it; logs is logs.length
JobRecord(status, progress, logs) ==
  [status |-> status, progress |-> progress, logs |-> logs]

\* what jobs.find and jobs.findIndex see for an id that is not in the file
Absent == JobRecord("absent", 0, 0)

\* readJobs of a file that does not exist: []
NoJobs == [id \in JobIds |-> Absent]

\* an update that leaves a field as it is
Keep == [status |-> "keep", progress |-> -1]

WorkerIdle ==
  [pc |-> "idle", jobId |-> "none", configOk |-> TRUE, awaiting |-> 0,
   lastProgress |-> 0, callbacks |-> 0, settled |-> "none"]

\* a process: its jobStoreLock (the operation whose promise it is, 0 for the
\* promise resolved at load), the operations it has called, its worker
ProcIdle == [jobStoreLock |-> 0, chain |-> <<>>, worker |-> WorkerIdle]

JsIdle ==
  [mode |-> "idle", file |-> NoJobs, initial |-> NoJobs, faults |-> 0,
   procs |-> [p \in Pids |-> ProcIdle]]

BdIdle ==
  [phase |-> "idle", similarities |-> <<>>, sentenceCount |-> 0,
   opts |-> DEFAULT_OPTIONS, breakPoints |-> <<>>, segments |-> <<>>]

\* one invocation of chunkDocumentSemantic
Init ==
  /\ \E in \in Inputs :
       InitWith([p \in Procs |->
                   IF p = 1 THEN [content |-> in.content, opts |-> in.opts, run |-> TRUE]
                   ELSE NotRun])
  /\ bd = BdIdle /\ fu = FuIdle /\ rt = RtIdle /\ sp = SpIdle /\ js = JsIdle

\* ------------------------------------------------------------------------
\* chunkDocumentSemantic (chunking.ts 209-235)
\* ------------------------------------------------------------------------
\* the locals after a step, and the list returned if the step was the last
Continue(p, r) ==
  /\ inv' = [inv EXCEPT ![p] = r]
  /\ result' = IF r.pc = "done" THEN [result EXCEPT ![p] = r.normalized] ELSE result

\* Call that takes the shortcut only for a text without any sentence
Call_ShortcutBelowOne(p) ==
  /\ pc(p) = "start"
  /\ LET normalized == normalizeContent(content[p])
         sentences == splitIntoSentences(normalized)
     IN IF normalized = <<>>
        THEN /\ Continue(p, [inv[p] EXCEPT !.pc = "done"])
             /\ UNCHANGED embedCalls
        ELSE IF Len(sentences) < 1
        THEN /\ Continue(p, [inv[p] EXCEPT
                               !.pc = "done",
                               !.normalized = <<[text |-> normalized, sentenceCount |-> 1]>>])
             /\ UNCHANGED embedCalls
        ELSE /\ Continue(p, [inv[p] EXCEPT !.pc = "embed"])
             /\ embedCalls' = [embedCalls EXCEPT ![p] = @ + 1]
  /\ UNCHANGED <<content, opts, cache, error, detected, tokenCalls, faults, bd, fu, rt, sp, js>>

\* from the call to the first await: the early returns, else the request
\* for the sentence embeddings
Call(p) ==
  /\ pc(p) = "start"
  /\ LET normalized == normalizeContent(content[p])
         sentences == splitIntoSentences(normalized)
     IN IF normalized = <<>>
        THEN /\ Continue(p, [inv[p] EXCEPT !.pc = "done"])
             /\ UNCHANGED embedCalls
        ELSE IF Len(sentences) <= 1
        THEN /\ Continue(p, [inv[p] EXCEPT
                               !.pc = "done",
                               !.normalized =
                                 <<[text |-> normalized,
                                    sentenceCount |->
                                      IF Len(sentences) = 0 THEN 1 ELSE Len(sentences)]>>])
             /\ UNCHANGED embedCalls
        ELSE /\ Continue(p, [inv[p] EXCEPT !.pc = "embed"])
             /\ embedCalls' = [embedCalls EXCEPT ![p] = @ + 1]
  /\ UNCHANGED <<content, opts, cache, error, detected, tokenCalls, faults, bd, fu, rt, sp, js>>

\* generateEmbeddings resolves: similarities, breakpoints, segments, and
\* mergeSegments up to its first awaited token count
EmbedReturn(p) ==
  /\ pc(p) = "embed"
  /\ LET sentences == splitIntoSentences(normalizeContent(content[p]))
     IN \E embeddings \in [1..Len(sentences) -> Vectors] :
          LET sims == computePairwiseSimilarities(embeddings)
              breaks == detectBreakPoints(sims, Len(sentences), config(p))
              segs == buildSegments(sentences, breaks)
          IN /\ detected' = [detected EXCEPT ![p] = breaks]
             /\ IF Len(segs) = 0
                THEN Continue(p, [inv[p] EXCEPT !.pc = "done"])
                ELSE Continue(p, NextSegment([inv[p] EXCEPT !.segments = segs]))
  /\ UNCHANGED <<content, opts, cache, error, embedCalls, tokenCalls, faults, bd, fu, rt, sp, js>>

\* EmbedThrow that swallows the fault and returns the whole text as a chunk
EmbedThrow_Swallowed(p) ==
  /\ pc(p) = "embed"
  /\ Continue(p, [inv[p] EXCEPT
                    !.pc = "done",
                    !.normalized = <<[text |-> normalizeContent(content[p]),
                                      sentenceCount |-> 1]>>])
  /\ error' = [error EXCEPT ![p] = "embedding"]
  /\ UNCHANGED <<content, opts, cache, detected, embedCalls, tokenCalls, faults, bd, fu, rt, sp, js>>

\* generateEmbeddings rejects (handleError rethrows): the call is rejected
EmbedThrow(p) ==
  /\ pc(p) = "embed"
  /\ inv' = [inv EXCEPT ![p] = [@ EXCEPT !.pc = "failed"]]
  /\ error' = [error EXCEPT ![p] = "embedding"]
  /\ UNCHANGED <<content, opts, cache, result, detected, embedCalls,
                 tokenCalls, faults, bd, fu, rt, sp, js>>

\* Counted with one cache for all invocations
Counted_SharedCache(p, text, o) ==
  /\ cache' = [q \in Procs |-> CacheSet(cache[q], text, o)]
  /\ tokenCalls' = [tokenCalls EXCEPT ![p] = IF o.source = "cache" THEN @ ELSE @ + 1]
  /\ faults' = IF o.source \in {"nousage", "fallback"} THEN faults + 1 ELSE faults
  /\ UNCHANGED <<content, opts, error, detected, embedCalls, bd, fu, rt, sp, js>>

\* the bookkeeping of one awaited tokensFor(text) that resolved to o
Counted(p, text, o) ==
  /\ cache' = [cache EXCEPT ![p] = CacheSet(@, text, o)]
  /\ tokenCalls' = [tokenCalls EXCEPT ![p] = IF o.source = "cache" THEN @ ELSE @ + 1]
  /\ faults' = IF o.source \in {"nousage", "fallback"} THEN faults + 1 ELSE faults
  /\ UNCHANGED <<content, opts, error, detected, embedCalls, bd, fu, rt, sp, js>>

\* enforceMaxSize resumes with the token count of the text it was given
EnforceStep(p) ==
  /\ pc(p) = "enforce"
  /\ LET text == Head(inv[p].stack)
     IN \E o \in tokensFor(cache[p], text, faults < MaxFaults) :
          /\ Continue(p, enforceMaxSize(inv[p], o.value, config(p).maxTokens))
          /\ Counted(p, text, o)

\* the loop over the parts resumes with the candidate's token count
AccumulateStep(p) ==
  /\ pc(p) = "accumulate"
  /\ LET text == Candidate(inv[p])
     IN \E o \in tokensFor(cache[p], text, faults < MaxFaults) :
          /\ Continue(p, Accumulate(inv[p], o.value, config(p)))
          /\ Counted(p, text, o)

\* normalizeSmallChunks resumes with the token count of the next chunk
NormTokensStep(p) ==
  /\ pc(p) = "normTokens"
  /\ LET text == inv[p].chunks[inv[p].index].text
     IN \E o \in tokensFor(cache[p], text, faults < MaxFaults) :
          /\ Continue(p, NormalizeChunk(inv[p], o.value, config(p)))
          /\ Counted(p, text, o)

\* normalizeSmallChunks resumes with the token count of the merged pair
NormMergedStep(p) ==
  /\ pc(p) = "normMerged"
  /\ LET text == MergedText(inv[p])
     IN \E o \in tokensFor(cache[p], text, faults < MaxFaults) :
          /\ Continue(p, NormalizeMerged(inv[p], o.value, config(p)))
          /\ Counted(p, text, o)

Next ==
  \/ \E p \in Procs : Call(p)
  \/ \E p \in Procs : EmbedReturn(p)
  \/ \E p \in Procs : EmbedThrow(p)
  \/ \E p \in Procs : EnforceStep(p)
  \/ \E p \in Procs : AccumulateStep(p)
  \/ \E p \in Procs : NormTokensStep(p)
  \/ \E p \in Procs : NormMergedStep(p)

Spec == Init /\ [][Next]_vars

\* ------------------------------------------------------------------------
\* Two invocations on the same document and options, interleaved at their
\* awaits
\* ------------------------------------------------------------------------
\* small token limits, in proportion to documents of short sentences
PairOptions ==
  [minTokens |-> 12, targetTokens |-> 14, maxTokens |-> 18, smoothWindow |-> 0]

PairInputs ==
  {[content |-> Document(l), opts |-> PairOptions] :
      l \in LengthLists(MaxPairSentences, ShortLen, ShortLen)}

InitPair ==
  /\ \E in \in PairInputs :
       InitWith([p \in Procs |-> [content |-> in.content, opts |-> in.opts, run |-> TRUE]])
  /\ bd = BdIdle /\ fu = FuIdle /\ rt = RtIdle /\ sp = SpIdle /\ js = JsIdle

SpecPair == InitPair /\ [][Next]_vars

\* ------------------------------------------------------------------------
\* detectBreakPoints and buildSegments applied to a similarity series
\* ------------------------------------------------------------------------
SimValues == {-SimScale, 0, 12, SimScale}

SimSeries == UNION {[1..n -> SimValues] : n \in 0..MaxSims}

BreakOptions ==
  {ResolveOptions([smoothWindow |-> w, stdMultiplier |-> k]) :
      w \in 0..DEFAULT_OPTIONS.smoothWindow, k \in 0..1}

\* n distinguishable sentences
SomeSentences(n) == [i \in 1..n |-> Sentence(2 + i)]

InitBreak ==
  /\ InitWith([p \in Procs |-> NotRun])
  /\ fu = FuIdle /\ rt = RtIdle /\ sp = SpIdle /\ js = JsIdle
  /\ \E sims \in SimSeries, o \in BreakOptions :
       bd = [BdIdle EXCEPT !.phase = "input", !.similarities = sims,
                           !.sentenceCount = Len(sims) + 1, !.opts = o]

Detect ==
  /\ bd.phase = "input"
  /\ bd' = [bd EXCEPT !.phase = "detected",
                      !.breakPoints = detectBreakPoints(bd.similarities,
                                                        bd.sentenceCount, bd.opts)]
  /\ UNCHANGED <<mainVars, fu, rt, sp, js>>

Build ==
  /\ bd.phase = "detected"
  /\ bd' = [bd EXCEPT !.phase = "built",
                      !.segments = buildSegments(SomeSentences(bd.sentenceCount),
                                                 bd.breakPoints)]
  /\ UNCHANGED <<mainVars, fu, rt, sp, js>>

NextBreak == Detect \/ Build

SpecBreak == InitBreak /\ [][NextBreak]_vars

\* ------------------------------------------------------------------------
\* detectBreakPoints in the arithmetic of numbers, with stdMultiplier = 0,
\* applied to series of the similarities 0.8 and 0.9
\* ------------------------------------------------------------------------
DoubleSimValues == {SimScale - 4, SimScale - 2}

\* the default radius, and the radius that covers the longest series whole
DoubleOptions ==
  {ResolveOptions([smoothWindow |-> w, stdMultiplier |-> 0]) :
      w \in {DEFAULT_OPTIONS.smoothWindow, MaxDoubleSims - 1}}

InitDouble ==
  /\ InitWith([p \in Procs |-> NotRun])
  /\ fu = FuIdle /\ rt = RtIdle /\ sp = SpIdle /\ js = JsIdle
  /\ \E n \in 0..MaxDoubleSims :
       \E sims \in [1..n -> DoubleSimValues], o \in DoubleOptions :
         bd = [BdIdle EXCEPT !.phase = "input", !.similarities = sims,
                             !.sentenceCount = Len(sims) + 1, !.opts = o]

DetectDouble ==
  /\ bd.phase = "input"
  /\ bd' = [bd EXCEPT !.phase = "detected",
                      !.breakPoints = detectBreakPointsDouble(bd.similarities,
                                                              bd.sentenceCount,
                                                              bd.opts)]
  /\ UNCHANGED <<mainVars, fu, rt, sp, js>>

NextDouble == DetectDouble \/ Build

SpecDouble == InitDouble /\ [][NextDouble]_vars

\* ------------------------------------------------------------------------
\* fuseModalityResults, and searchDocumentation once it has its text results
\* (src/unnamed/part_003 86-108, 164-225), applied to two result lists
\* ------------------------------------------------------------------------
Ids == {"A", "B"}

\* raw scores, in tenths
ScoreValues == {0, 1, 2, 9}

\* the lists of n results of one modality; content tells the results apart
ResultLists(list, n, modality) ==
  {[k \in 1..n |->
      [id |-> f[k][1], score |-> Rat(f[k][2], ScoreScale),
       metadata |-> [modality |-> modality, content |-> <<list, k>>]]] :
     f \in [1..n -> Ids \X ScoreValues]}

\* the sizes of the two lists
ListSizes == {s \in (0..MaxResults) \X (0..MaxResults) : s[1] + s[2] <= MaxResults}

InitFuse ==
  /\ InitWith([p \in Procs |-> NotRun])
  /\ bd = BdIdle /\ rt = RtIdle /\ sp = SpIdle /\ js = JsIdle
  /\ \E s \in ListSizes, swapped \in BOOLEAN, l \in 0..MaxLimit :
       \* results carry the modality of their list, or the other one
       \E t \in ResultLists("text", s[1], IF swapped THEN "image" ELSE "text"),
          i \in ResultLists("image", s[2], IF swapped THEN "text" ELSE "image") :
         fu = [FuIdle EXCEPT !.phase = "input", !.textResults = t,
                             !.imageResults = i, !.limit = l]

\* fuseModalityResults(textResults, imageResults, limit)
Fuse ==
  /\ fu.phase = "input"
  /\ fu' = [fu EXCEPT !.phase = "fused",
                      !.weights = IF Len(fu.textResults) > 0 /\ Len(fu.imageResults) > 0
                                  THEN <<WeightsOf(fu.textResults, fu.imageResults)>>
                                  ELSE <<>>,
                      !.output = fuseModalityResults(fu.textResults, fu.imageResults,
                                                     fu.limit)]
  /\ UNCHANGED <<mainVars, bd, rt, sp, js>>

\* normalizeScores(textResults)
Normalize ==
  /\ fu.phase = "input"
  /\ fu' = [fu EXCEPT !.phase = "normalized",
                      !.normalized = <<normalizeScores(fu.textResults)>>]
  /\ UNCHANGED <<mainVars, bd, rt, sp, js>>

\* options.limit || 10
DefaultLimit == 10

\* searchDocumentation from the text results on: they are returned when no
\* image index is named or the image search finds nothing, else fused
Search ==
  /\ fu.phase = "input"
  /\ \E hasImageIndex \in BOOLEAN :
       LET limit == IF fu.limit = 0 THEN DefaultLimit ELSE fu.limit
       IN fu' = [fu EXCEPT
                   !.phase = "searched",
                   !.hasImageIndex = hasImageIndex,
                   !.output = IF ~hasImageIndex THEN fu.textResults
                              ELSE IF Len(fu.imageResults) = 0 THEN fu.textResults
                              ELSE fuseModalityResults(fu.textResults, fu.imageResults,
                                                       limit)]
  /\ UNCHANGED <<mainVars, bd, rt, sp, js>>

NextFuse == Fuse \/ Search \/ Normalize

SpecFuse == InitFuse /\ [][NextFuse]_vars

\* ------------------------------------------------------------------------
\* retry (utils/retry.ts 15-39, and the retry of part_008 143-181)
\* ------------------------------------------------------------------------
\* DEFAULT_OPTIONS of retry
RETRY_DEFAULT_OPTIONS ==
  [maxRetries |-> 3, initialDelay |-> 1000, maxDelay |-> 30000, backoffFactor |-> 2]

\* the two modules of the repository that define retry
RetryModules == {"utils/retry.ts", "part_008"}

\* what a call passes as second argument
RetryArguments == {"isRateLimitError", "isTimeoutError", "undefined"}

\* an error is the set of phrases its lower-cased message includes
ErrorMessages ==
  { {"rate limit"}, {"429", "too many requests"}, {"timed out"}, {} }

isRateLimitError(lastError) ==
  lastError \cap {"rate limit", "too many requests", "rate_limit", "429"} # {}

isTimeoutError(lastError) ==
  lastError \cap {"timeout", "timed out", "time out"} # {}

\* shouldRetry of part_008: the function passed, else () => true
shouldRetry(argument, lastError) ==
  IF argument = "isRateLimitError" THEN isRateLimitError(lastError)
  ELSE IF argument = "isTimeoutError" THEN isTimeoutError(lastError)
  ELSE TRUE

\* Math.pow for natural exponents
RECURSIVE Pow(_, _)
Pow(base, exponent) == IF exponent = 0 THEN 1 ELSE base * Pow(base, exponent - 1)

\* the delay before the re-attempt that follows attempt number attempt
retryDelay(attempt, options) ==
  Min(options.initialDelay * Pow(options.backoffFactor, attempt), options.maxDelay)

\* whether the catch block goes on to sleep and to another attempt.  The
\* retry of utils/retry.ts takes options only: spreading the function it
\* is passed adds no option, and no predicate is asked.
canRetry(module, argument, attempt, lastError, options) ==
  IF module = "utils/retry.ts" THEN attempt < options.maxRetries
  ELSE attempt < options.maxRetries /\ shouldRetry(argument, lastError)

\* retry(fn, argument) has been called and awaits fn() for the first time
InitRetry ==
  /\ InitWith([p \in Procs |-> NotRun])
  /\ bd = BdIdle /\ fu = FuIdle /\ sp = SpIdle /\ js = JsIdle
  /\ \E module \in RetryModules, argument \in RetryArguments :
       rt = [RtIdle EXCEPT !.pc = "attempt", !.module = module, !.predicate = argument]

\* fn() resolves: retry returns its value
Resolve ==
  /\ rt.pc = "attempt"
  /\ rt' = [rt EXCEPT !.pc = "done", !.outcome = "returned"]
  /\ UNCHANGED <<mainVars, bd, fu, sp, js>>

\* fn() rejects: the catch block, up to the sleep or to the throw of
\* lastError
Reject ==
  /\ rt.pc = "attempt"
  /\ \E lastError \in ErrorMessages :
       IF canRetry(rt.module, rt.predicate, rt.attempt, lastError, RETRY_DEFAULT_OPTIONS)
       THEN rt' = [rt EXCEPT !.pc = "sleep",
                             !.thrown = Append(@, lastError),
                             !.slept = Append(@, retryDelay(rt.attempt, RETRY_DEFAULT_OPTIONS))]
       ELSE rt' = [rt EXCEPT !.pc = "done",
                             !.thrown = Append(@, lastError),
                             !.outcome = "threw"]
  /\ UNCHANGED <<mainVars, bd, fu, sp, js>>

\* the sleep is over: attempt++ and the next fn()
Wake ==
  /\ rt.pc = "sleep"
  /\ rt' = [rt EXCEPT !.pc = "attempt", !.attempt = @ + 1]
  /\ UNCHANGED <<mainVars, bd, fu, sp, js>>

NextRetry == Resolve \/ Reject \/ Wake

SpecRetry == InitRetry /\ [][NextRetry]_vars

\* ------------------------------------------------------------------------
\* findSplitPoint applied to a text (chunking.ts 455-483)
\* ------------------------------------------------------------------------
Filler(n) == [i \in 1..n |-> "a"]

\* what may stand between two parts of a text
Separators == {<<"\n", "\n">>, <<".", " ">>, <<"!", " ">>, <<"?", " ">>, <<>>}

EdgeLens == {EdgeMargin - EdgeSlack, EdgeMargin, EdgeMargin + 2, EdgeMargin + EdgeSlack}

GapLens == {2, MaxGap \div 2, MaxGap}

\* three runs of letters with a separator after the first and after the second
SplitTexts ==
  {Filler(a) \o s1 \o Filler(b) \o s2 \o Filler(c) :
     a \in EdgeLens, c \in EdgeLens, b \in GapLens, s1 \in Separators, s2 \in Separators}

InitSplit ==
  /\ InitWith([p \in Procs |-> NotRun])
  /\ bd = BdIdle /\ fu = FuIdle /\ rt = RtIdle /\ js = JsIdle
  /\ \E text \in SplitTexts : sp = [SpIdle EXCEPT !.phase = "input", !.text = text]

\* findSplitPoint(text)
Split ==
  /\ sp.phase = "input"
  /\ sp' = [sp EXCEPT !.phase = "split", !.splitIndex = findSplitPoint(sp.text)]
  /\ UNCHANGED <<mainVars, bd, fu, rt, js>>

NextSplit == Split

SpecSplit == InitSplit /\ [][NextSplit]_vars

\* ------------------------------------------------------------------------
\* enforceMaxSize applied to a text, under an estimator of any answers
\* (chunking.ts 425-453)
\* ------------------------------------------------------------------------
BisectAlphabet == {"a", ".", " "}

\* what mergeSegments passes: segment.trim(), when it is not empty
Trimmed(text) == text # <<>> /\ Trim(text) = text

ShortTexts ==
  {text \in UNION {[1..n -> BisectAlphabet] : n \in 1..MaxBisectLen} : Trimmed(text)}

\* two runs of letters that a separator splits away from the edges
LongTexts == {Filler(EdgeMargin) \o s \o Filler(EdgeMargin) : s \in Separators}

\* "any": the estimator answers above or within maxTokens as it likes;
\* "above": it reports every text as above maxTokens
BisectInputs ==
  (ShortTexts \X {"any", "above"}) \cup (LongTexts \X {"above"})

InitBisect ==
  /\ InitWith([p \in Procs |-> NotRun])
  /\ bd = BdIdle /\ fu = FuIdle /\ rt = RtIdle /\ js = JsIdle
  /\ \E in \in BisectInputs :
       sp = [SpIdle EXCEPT !.phase = "bisect", !.text = in[1], !.estimator = in[2],
                           !.run = [NoLocals EXCEPT !.pc = "enforce", !.stack = <<in[1]>>]]

\* one call of enforceMaxSize resumes with the token count of its text;
\* the call at the top level has returned once the stack is empty
Bisect ==
  /\ sp.phase = "bisect" /\ sp.run.pc = "enforce"
  /\ \E above \in BOOLEAN :
       /\ sp.estimator = "above" => above
       /\ LET maxTokens == DEFAULT_OPTIONS.maxTokens
              tokenCount == IF above THEN maxTokens + 1 ELSE maxTokens
          IN sp' = [sp EXCEPT !.run = enforceMaxSize(sp.run, tokenCount, maxTokens)]
  /\ UNCHANGED <<mainVars, bd, fu, rt, js>>

NextBisect == Bisect

\* an awaited token count arrives, and the call goes on
SpecBisect == InitBisect /\ [][NextBisect]_vars /\ WF_vars(Bisect)

\* ------------------------------------------------------------------------
\* Job store (src/unnamed/part_006): the operations on jobs.json, each under
\* withJobStore
\* ------------------------------------------------------------------------
MAX_LOG_ENTRIES == 500

\* the body of an operation from the jobs readJobs returned: whether it
\* calls writeJobs, and the jobs it writes
operation(op, jobs) ==
  LET job == jobs[op.jobId]
      unwritten == [write |-> FALSE, jobs |-> jobs]
      written(next) == [write |-> TRUE, jobs |-> [jobs EXCEPT ![op.jobId] = next]]
  IN CASE op.kind \in {"listJobs", "getJob"} -> unwritten
       [] op.kind = "upsertJob" ->
            written(JobRecord(op.updates.status, op.updates.progress, 0))
       [] op.kind = "updateJob" ->
            IF job = Absent THEN unwritten
            ELSE written([job EXCEPT
                   !.status = IF op.updates.status = Keep.status THEN @
                              ELSE op.updates.status,
                   !.progress = IF op.updates.progress = Keep.progress THEN @
                                ELSE op.updates.progress])
       [] op.kind = "removeJob" ->
            IF job = Absent THEN unwritten ELSE written(Absent)
       [] op.kind = "appendJobLog" ->
            IF job = Absent THEN unwritten
            ELSE written([job EXCEPT !.logs = Min(@ + 1, MAX_LOG_ENTRIES)])

\* withJobStore up to its await: previous is the lock found, and the promise
\* of this call becomes the lock
withJobStore(proc, kind, jobId, updates) ==
  [proc EXCEPT
     !.chain = Append(@, [kind |-> kind, jobId |-> jobId, updates |-> updates,
                          previous |-> proc.jobStoreLock, pc |-> "await previous",
                          jobs |-> NoJobs, released |-> FALSE]),
     !.jobStoreLock = Len(proc.chain) + 1]

\* Resolved that lets every operation go on at once
Resolved_Always(proc, k) == TRUE

\* the promise of operation k of the process is resolved
Resolved(proc, k) == IF k = 0 THEN TRUE ELSE proc.chain[k].released

\* the worker calls an operation and awaits it at the position named
AwaitStore(proc, kind, updates, at) ==
  LET called == withJobStore(proc, kind, proc.worker.jobId, updates)
  IN [called EXCEPT !.worker.pc = at, !.worker.awaiting = Len(called.chain)]

\* void updateJob(...) and void appendJobLog(...): called and not awaited
FireAndForget(proc, kind, updates) ==
  withJobStore(proc, kind, proc.worker.jobId, updates)

\* run() from the return of the operation it awaits to its next await, to
\* the start of the indexing, or to its end
Resumed(proc) ==
  LET worker == proc.worker
      op == proc.chain[worker.awaiting]
      exit(at) == [proc EXCEPT !.worker.pc = at, !.worker.awaiting = 0]
      failed == [Keep EXCEPT !.status = "failed"]
  IN IF op.pc = "threw"
     THEN \* inside the try block the catch block takes over
          IF worker.pc \in {"logCompleted", "completing"}
          THEN AwaitStore(proc, "appendJobLog", Keep, "logFailed")
          ELSE exit("rejected")
     ELSE CASE worker.pc = "getJob" ->
                 IF op.jobs[worker.jobId] = Absent THEN exit("exited")
                 ELSE IF ~worker.configOk
                 THEN AwaitStore(proc, "updateJob", failed, "refusing")
                 ELSE AwaitStore([proc EXCEPT !.worker.lastProgress =
                                                op.jobs[worker.jobId].progress],
                                 "updateJob", [Keep EXCEPT !.status = "in-progress"],
                                 "starting")
            [] worker.pc = "refusing" -> exit("exited")
            [] worker.pc = "starting" ->
                 AwaitStore(proc, "appendJobLog", Keep, "logStarted")
            [] worker.pc = "logStarted" -> exit("indexing")
            [] worker.pc = "logCompleted" ->
                 AwaitStore(proc, "updateJob",
                            [status |-> "completed", progress |-> worker.lastProgress],
                            "completing")
            [] worker.pc = "completing" -> exit("exited")
            [] worker.pc = "logFailed" ->
                 AwaitStore(proc, "updateJob",
                            [status |-> "failed", progress |-> worker.lastProgress],
                            "failing")
            [] worker.pc = "failing" -> exit("exited")

\* release() of withJobStore and the return, or the throw, of operation i
\* to its caller: a worker that awaits it goes on at once
Release(proc, i, outcome, jobs) ==
  LET released == [proc EXCEPT !.chain[i].pc = outcome,
                               !.chain[i].jobs = jobs,
                               !.chain[i].released = TRUE]
  IN IF proc.worker.awaiting = i THEN Resumed(released) ELSE released

\* await previous is over and readJobs reads the file; an operation that
\* writes nothing returns, and readFile may fail: either way release()
ReadJobs ==
  /\ js.mode \in {"store", "workers"}
  /\ \E p \in Pids : \E i \in 1..Len(js.procs[p].chain) :
       LET op == js.procs[p].chain[i]
           next == operation(op, js.file)
       IN /\ op.pc = "await previous"
          /\ Resolved(js.procs[p], op.previous)
          /\ \/ js' = [js EXCEPT
                        !.procs[p] =
                          IF next.write
                          THEN [@ EXCEPT !.chain[i].pc = "writeJobs",
                                         !.chain[i].jobs = next.jobs]
                          ELSE Release(@, i, "returned", js.file)]
             \/ /\ js.faults > 0
                /\ js' = [js EXCEPT !.faults = @ - 1,
                                    !.procs[p] = Release(@, i, "threw", NoJobs)]
  /\ UNCHANGED <<mainVars, bd, fu, rt, sp>>

\* writeJobs writes the file and the operation returns, or writeFile fails
\* and the file stays: either way release()
WriteJobs ==
  /\ js.mode \in {"store", "workers"}
  /\ \E p \in Pids : \E i \in 1..Len(js.procs[p].chain) :
       LET op == js.procs[p].chain[i]
       IN /\ op.pc = "writeJobs"
          /\ \/ js' = [js EXCEPT !.file = op.jobs,
                                 !.procs[p] = Release(@, i, "returned", NoJobs)]
             \/ /\ js.faults > 0
                /\ js' = [js EXCEPT !.faults = @ - 1,
                                    !.procs[p] = Release(@, i, "threw", NoJobs)]
  /\ UNCHANGED <<mainVars, bd, fu, rt, sp>>

\* what a process may call
StoreCalls ==
  { <<"listJobs", "j1", Keep>>,
    <<"getJob", "j1", Keep>>,
    <<"upsertJob", "j1", [status |-> "queued", progress |-> 0]>>,
    <<"updateJob", "j1", [Keep EXCEPT !.status = "in-progress"]>>,
    <<"updateJob", "j1", [Keep EXCEPT !.progress = 1]>>,
    <<"removeJob", "j1", Keep>>,
    <<"appendJobLog", "j1", Keep>> }

QueuedJob == JobRecord("queued", 0, 1)

InitStore ==
  /\ InitWith([p \in Procs |-> NotRun])
  /\ bd = BdIdle /\ fu = FuIdle /\ rt = RtIdle /\ sp = SpIdle
  /\ \E file \in {NoJobs, [NoJobs EXCEPT !["j1"] = QueuedJob]},
        storeFaults \in 0..MaxStoreFaults :
       js = [JsIdle EXCEPT !.mode = "store", !.file = file, !.initial = file,
                           !.faults = storeFaults]

\* process 1 calls an operation without awaiting the ones it has called
CallStore ==
  /\ js.mode = "store"
  /\ Len(js.procs[1].chain) < MaxOps
  /\ \E call \in StoreCalls :
       js' = [js EXCEPT !.procs[1] = withJobStore(@, call[1], call[2], call[3])]
  /\ UNCHANGED <<mainVars, bd, fu, rt, sp>>

NextStore == CallStore \/ ReadJobs \/ WriteJobs

SpecStore == InitStore /\ [][NextStore]_vars

\* ------------------------------------------------------------------------
\* Background worker (background-worker.ts 138-272): one detached process
\* per job, spawned by spawnBackgroundWorker (index.ts 408-450)
\* ------------------------------------------------------------------------
JobOf(w) == IF w = 1 THEN "j1" ELSE "j2"

\* both jobs are queued, or the second one is not in the file; a worker
\* has been forked for each with the job id and the configuration
InitWorkers ==
  /\ InitWith([p \in Procs |-> NotRun])
  /\ bd = BdIdle /\ fu = FuIdle /\ rt = RtIdle /\ sp = SpIdle
  /\ \E file \in {[id \in JobIds |-> QueuedJob], [NoJobs EXCEPT !["j1"] = QueuedJob]},
        configOk \in [Pids -> BOOLEAN] :
       js = [JsIdle EXCEPT
               !.mode = "workers", !.file = file, !.initial = file,
               !.procs = [w \in Pids |->
                            [ProcIdle EXCEPT !.worker.pc = "spawned",
                                             !.worker.jobId = JobOf(w),
                                             !.worker.configOk = configOk[w]]]]

\* run() up to await getJob(jobId)
Run ==
  /\ js.mode = "workers"
  /\ \E w \in Pids :
       /\ js.procs[w].worker.pc = "spawned"
       /\ js' = [js EXCEPT !.procs[w] = AwaitStore(@, "getJob", Keep, "getJob")]
  /\ UNCHANGED <<mainVars, bd, fu, rt, sp>>

\* the indexing calls handleProgress or handleLog
Callback ==
  /\ js.mode = "workers"
  /\ \E w \in Pids :
       LET proc == js.procs[w]
           counted == [proc EXCEPT !.worker.callbacks = @ + 1]
       IN /\ proc.worker.pc = "indexing"
          /\ js.procs[1].worker.callbacks + js.procs[2].worker.callbacks < MaxCallbacks
          /\ \/ js' = [js EXCEPT !.procs[w] =
                         FireAndForget(
                           [counted EXCEPT !.worker.lastProgress = @ + 1],
                           "updateJob",
                           [Keep EXCEPT !.progress = proc.worker.lastProgress + 1])]
             \/ js' = [js EXCEPT !.procs[w] =
                         FireAndForget(counted, "appendJobLog", Keep)]
  /\ UNCHANGED <<mainVars, bd, fu, rt, sp>>

\* the indexing returns or throws
Settle ==
  /\ js.mode = "workers"
  /\ \E w \in Pids, settled \in {"returned", "threw"} :
       LET proc == js.procs[w]
       IN /\ proc.worker.pc = "indexing"
          /\ js' = [js EXCEPT !.procs[w] =
                      AwaitStore([proc EXCEPT !.worker.settled = settled],
                                 "appendJobLog", Keep,
                                 IF settled = "returned" THEN "logCompleted"
                                 ELSE "logFailed")]
  /\ UNCHANGED <<mainVars, bd, fu, rt, sp>>

NextWorkers == Run \/ Callback \/ Settle \/ ReadJobs \/ WriteJobs

SpecWorkers == InitWorkers /\ [][NextWorkers]_vars

\* ------------------------------------------------------------------------
\* Properties
\* ------------------------------------------------------------------------
Done(p) == pc(p) = "done"

\* the sentences of the document of invocation p
Sentences(p) == splitIntoSentences(normalizeContent(content[p]))

\* the token count of a text as invocation p obtained it, else as the
\* estimator reports it
Tokens(p, text) ==
  IF text \in DOMAIN cache[p] THEN cache[p][text].value ELSE ApiTokens(text)

ChunkIndices(p) == 1..Len(result[p])

\* the chunk is one piece that enforceMaxSize returned although oversized
OversizedIndivisible(p, i) == result[p][i].text \in inv[p].unsplit

NoSplitCandidate(text) ==
  \A pat \in {<<"\n", "\n">>, <<".", " ">>, <<"!", " ">>, <<"?", " ">>} :
    \A i \in Occurrences(text, pat) : i < EdgeMargin \/ i > Len(text) - EdgeMargin

\* invocation p takes the step of enforceMaxSize on an oversized text that
\* has no such candidate
OversizedNoCandidate(p) ==
  /\ pc(p) = "enforce"
  /\ inv'[p] # inv[p]
  /\ cache'[p][Head(inv[p].stack)].value > config(p).maxTokens
  /\ NoSplitCandidate(Head(inv[p].stack))

\* enforceMaxSize returned the text on top of the stack as one piece
ReturnedWhole(p) ==
  LET text == Head(inv[p].stack)
  IN IF Len(inv[p].stack) = 1
     THEN inv'[p].pc = "accumulate" /\ inv'[p].parts = Append(inv[p].parts, text)
     ELSE inv'[p].stack = Tail(inv[p].stack)
            /\ inv'[p].parts = Append(inv[p].parts, text)

\* enforceMaxSize cut the text on top of the stack at its middle character
CutAtMiddle(p) ==
  LET text == Head(inv[p].stack)
      middle == Len(text) \div 2
  IN /\ inv'[p].pc = "enforce"
     /\ inv'[p].parts = inv[p].parts
     /\ inv'[p].stack = <<Trim(Slice(text, 0, middle)), Trim(Slice(text, middle, Len(text)))>>
                          \o Tail(inv[p].stack)

\* C3 as stated: an oversized text without a split candidate at least 200
\* characters from both edges is returned by enforceMaxSize unchanged, as
\* one piece.
C3_Original ==
  [][\A p \in Procs : OversizedNoCandidate(p) => ReturnedWhole(p)]_vars

\* C3 (amended): an oversized text without such a candidate is cut at its
\* middle character into two trimmed halves that are bisected in turn; only
\* a text of one or two characters is returned as one piece.
C3_CutAtMiddle ==
  [][\A p \in Procs :
       OversizedNoCandidate(p) =>
         IF Len(Head(inv[p].stack)) <= 2 THEN ReturnedWhole(p) ELSE CutAtMiddle(p)]_vars

\* the bisection is at work on the two halves of a sentence that was cut
\* inside a word
C3_Witness ==
  /\ pc(1) = "enforce" /\ Len(inv[1].stack) >= 2
  /\ inv[1].stack[1][Len(inv[1].stack[1])] \notin Terminators
  /\ NoSplitCandidate(inv[1].stack[1] \o inv[1].stack[2])
  /\ inv[1].stack[1] \o inv[1].stack[2] \in DOMAIN cache[1]
  /\ cache[1][inv[1].stack[1] \o inv[1].stack[2]].value > config(1).maxTokens

\* the returned texts, or the sentences, without any white space
RECURSIVE Squeeze(_)
Squeeze(texts) ==
  IF texts = <<>> THEN <<>>
  ELSE SelectSeq(Head(texts), LAMBDA c : c \notin WS) \o Squeeze(Tail(texts))

\* C4: for a document of more than one sentence the returned chunk texts, in
\* list order and without white space, are the sentences of the document in
\* their order, each exactly once.
C4_OrderPreserved ==
  \A p \in Procs :
    (Done(p) /\ Len(Sentences(p)) > 1) =>
      Squeeze([i \in ChunkIndices(p) |-> result[p][i].text]) = Squeeze(Sentences(p))

\* a document that went through segment building at a breakpoint, a
\* bisection, the accumulation and a tail merge
C4_Witness ==
  /\ Done(1) /\ Len(Sentences(1)) > 2 /\ Len(result[1]) >= 2
  /\ detected[1] # <<>>
  /\ \E t \in DOMAIN cache[1] : cache[1][t].value > config(1).maxTokens
  /\ \E i \in ChunkIndices(1) : Occurrences(result[1][i].text, Blank) # {}

\* the boundary detector has returned its breakpoints
Detected == bd.phase \in {"detected", "built"}

\* C5: the breakpoints returned by detectBreakPoints are strictly
\* increasing, two consecutive breakpoints are at least 2 sentences apart,
\* and so are sentence 0 and the first breakpoint.
C5_BreakpointSpacing ==
  Detected =>
    LET b == bd.breakPoints
    IN /\ \A k \in 1..(Len(b) - 1) : b[k] < b[k + 1] /\ b[k + 1] - b[k] >= 2
       /\ Len(b) > 0 => b[1] >= 2

\* two breakpoints exactly 2 sentences apart, where the similarity stayed
\* low in between
C5_Witness ==
  /\ Detected /\ Len(bd.breakPoints) >= 2
  /\ bd.breakPoints[2] - bd.breakPoints[1] = 2
  /\ \E i \in 1..(Len(bd.similarities) - 1) :
       bd.similarities[i] = bd.similarities[i + 1] /\ bd.similarities[i] <= 0

\* the raw similarity of sentence 3 to sentence 2 is below the threshold
\* that detectBreakPoints computes from the series
ThirdBelowThreshold ==
  LET stats == Stats(bd.similarities, bd.opts)
  IN BelowThreshold(Len(bd.similarities) * stats.den * bd.similarities[2], stats, bd.opts)

FourSentences == bd.phase = "built" /\ bd.sentenceCount = 4

OneBreakBeforeThird == bd.breakPoints = <<2>> /\ Len(bd.segments) = 2

\* C6 as stated: four sentences, sentence 3's similarity to sentence 2 below
\* the threshold, default options: one breakpoint, at index 2, and two
\* segments.
C6_Original ==
  (FourSentences /\ bd.opts = DEFAULT_OPTIONS /\ ThirdBelowThreshold) =>
    OneBreakBeforeThird

\* C6 (amended): for four sentences with sentence 3's similarity to
\* sentence 2 below the threshold, detectBreakPoints marks one breakpoint,
\* at index 2, and buildSegments yields two segments when smoothWindow is 0
\* and the other options are the defaults; with the default smoothWindow 2
\* the three similarities are smoothed to their mean, no breakpoint is
\* marked and buildSegments yields one segment.
C6_SmoothingDecides ==
  (FourSentences /\ ThirdBelowThreshold) =>
    /\ bd.opts = [DEFAULT_OPTIONS EXCEPT !.smoothWindow = 0] => OneBreakBeforeThird
    /\ bd.opts = DEFAULT_OPTIONS => bd.breakPoints = <<>> /\ Len(bd.segments) = 1

\* four sentences segmented in two before sentence 3, without smoothing
C6_Witness ==
  /\ FourSentences /\ ThirdBelowThreshold
  /\ bd.opts = [DEFAULT_OPTIONS EXCEPT !.smoothWindow = 0]
  /\ OneBreakBeforeThird
  /\ bd.segments = <<Sentence(3) \o <<" ">> \o Sentence(4),
                     Sentence(5) \o <<" ">> \o Sentence(6)>>

\* the call returned one chunk holding the whole normalized text
WholeAsOneChunk(p) ==
  /\ Len(result[p]) = 1
  /\ result[p][1].text = normalizeContent(content[p])
  /\ result[p][1].sentenceCount = Max(1, Len(Sentences(p)))

NoCollaboratorCalled(p) == embedCalls[p] = 0 /\ tokenCalls[p] = 0

\* C7 as stated: an input of 0 or 1 sentences, the empty document included,
\* is returned as exactly one chunk holding the whole normalized text with
\* sentenceCount = max(1, count), without a call of the embedding generator
\* or of the token estimator.
C7_Original ==
  \A p \in Procs :
    (Done(p) /\ Len(Sentences(p)) <= 1) => WholeAsOneChunk(p) /\ NoCollaboratorCalled(p)

\* C7 (amended): an input of 0 or 1 sentences is returned without a call of
\* the embedding generator or of the token estimator: as the empty list when
\* the normalized text is empty, else as exactly one chunk holding the whole
\* normalized text with sentenceCount = max(1, count).
C7_Shortcut ==
  \A p \in Procs :
    (Done(p) /\ Len(Sentences(p)) <= 1) =>
      /\ NoCollaboratorCalled(p)
      /\ IF normalizeContent(content[p]) = <<>> THEN result[p] = <<>>
         ELSE WholeAsOneChunk(p)

\* a document of one sentence returned whole, its line end trimmed
C7_Witness ==
  /\ Done(1) /\ Len(Sentences(1)) = 1 /\ WholeAsOneChunk(1)
  /\ result[1][1].text # content[1]

\* C8: when the embedding generator fails, the call fails with that fault
\* and returns no chunk list; nothing else fails the call.
C8_EmbeddingFault ==
  \A p \in Procs :
    /\ error[p] # "none" => pc(p) = "failed" /\ error[p] = "embedding" /\ result[p] = <<>>
    /\ pc(p) = "failed" => error[p] = "embedding" /\ embedCalls[p] = 1 /\ tokenCalls[p] = 0

\* the call on a document of several sentences failed with the embedding
\* fault
C8_Witness ==
  /\ pc(1) = "failed" /\ error[1] = "embedding" /\ Len(Sentences(1)) > 1

\* the texts whose count invocation p got from the catch block of countTokens
Substituted(p) == {t \in DOMAIN cache[p] : cache[p][t].source = "fallback"}

\* C9 as stated: a failed token-estimation call fails the whole call and no
\* chunk list is returned.
C9_Original ==
  \A p \in Procs : Substituted(p) # {} => ~Done(p)

\* C9 (amended): a failed token-estimation call does not fail the call:
\* countTokens returns ceil(text.length / 4) in place of the count, and the
\* call goes on with it; the call fails on an embedding fault only.
C9_SubstitutedCount ==
  \A p \in Procs :
    /\ \A t \in Substituted(p) : 4 * cache[p][t].value \in Len(t)..(Len(t) + 3)
    /\ Substituted(p) # {} => pc(p) # "failed" /\ error[p] = "none"

\* a chunk list was returned although a token-estimation call had failed,
\* and the substituted count is not the estimator's
C9_Witness ==
  /\ Done(1) /\ Len(result[1]) >= 1
  /\ \E t \in Substituted(1) : cache[1][t].value # ApiTokens(t)

\* the token estimator gave both invocations the same count for every text
\* both asked about
SameCounts ==
  \A t \in DOMAIN cache[1] \cap DOMAIN cache[2] : cache[1][t].value = cache[2][t].value

\* both invocations were given the same document and options, and the
\* embedding generator gave both vectors with the same breakpoints
SameInputs ==
  /\ content[1] = content[2] /\ opts[1] = opts[2]
  /\ detected[1] = detected[2]

\* C10: two runs on the same document and configuration, with the same
\* vectors from the embedding generator and the same counts from the token
\* estimator, return identical chunk lists.
C10_Deterministic ==
  (Done(1) /\ Done(2) /\ SameInputs /\ SameCounts) => result[1] = result[2]

\* two interleaved runs on a document with a breakpoint that were given the
\* same counts and returned the same list of several chunks
C10_Witness ==
  /\ Done(1) /\ Done(2) /\ SameInputs /\ SameCounts
  /\ Len(result[1]) >= 2 /\ result[1] = result[2]
  /\ tokenCalls[1] > 0 /\ tokenCalls[2] > 0
  /\ detected[1] # <<>>

\* fuseModalityResults has returned for two lists that both have results
FusedBoth ==
  fu.phase = "fused" /\ Len(fu.textResults) > 0 /\ Len(fu.imageResults) > 0

InUnitInterval(x) == RLeq(RZero, x) /\ RLeq(x, ROne)

\* C11: for two non-empty result lists the weights of computeModalityWeights
\* are both in [0,1] and add up to 1.
C11_WeightsSumToOne ==
  FusedBoth =>
    LET w == fu.weights[1]
    IN /\ RAdd(w.textWeight, w.imageWeight) = ROne
       /\ InUnitInterval(w.textWeight) /\ InUnitInterval(w.imageWeight)

\* two lists of different confidence: the text list weighs less
C11_Witness ==
  /\ FusedBoth
  /\ RLess(fu.weights[1].textWeight, fu.weights[1].imageWeight)
  /\ RLess(RZero, fu.weights[1].textWeight)

IdsOf(results) == {results[k].id : k \in 1..Len(results)}

\* the number of results of the list that have the id
Occurs(results, id) == Cardinality({k \in 1..Len(results) : results[k].id = id})

\* every returned result whose id is in one list only has the weight of
\* that list times its normalised score there as its score
SingleModalityScores(weights) ==
  \A k \in 1..Len(fu.output) :
    LET id == fu.output[k].id
    IN /\ (id \in IdsOf(fu.textResults) \ IdsOf(fu.imageResults)) =>
            fu.output[k].score
              = RMul(weights.textWeight, normalizeScores(fu.textResults)[id])
       /\ (id \in IdsOf(fu.imageResults) \ IdsOf(fu.textResults)) =>
            fu.output[k].score
              = RMul(weights.imageWeight, normalizeScores(fu.imageResults)[id])

\* C12 as stated: whether the other list is empty or not, an id that is in
\* one modality only is returned with the score weight * normalised score.
C12_Original ==
  fu.phase = "fused" => SingleModalityScores(WeightsOf(fu.textResults, fu.imageResults))

\* C12 (amended): when both lists have results, an id that is in the text
\* list only is returned with the score textWeight * normalised score, and
\* an id that is in the image list only with imageWeight * normalised score
\* times the number of image results with that id (the normalised score of
\* an id being that of the last result with the id); when the other list is
\* empty the raw score is returned.
C12_SingleModality ==
  /\ FusedBoth =>
       \A k \in 1..Len(fu.output) :
         LET id == fu.output[k].id
             w == fu.weights[1]
         IN /\ (id \in IdsOf(fu.textResults) \ IdsOf(fu.imageResults)) =>
                 fu.output[k].score
                   = RMul(w.textWeight, normalizeScores(fu.textResults)[id])
            /\ (id \in IdsOf(fu.imageResults) \ IdsOf(fu.textResults)) =>
                 fu.output[k].score
                   = RMul(Rat(Occurs(fu.imageResults, id), 1),
                          RMul(w.imageWeight, normalizeScores(fu.imageResults)[id]))
  /\ (fu.phase = "fused" /\ ~FusedBoth) =>
       \A k \in 1..Len(fu.output) :
         fu.output[k].score = (fu.textResults \o fu.imageResults)[k].score

\* a text-only id returned next to an id of both lists, with a score that
\* is neither its raw nor its normalised score
C12_Witness ==
  /\ FusedBoth
  /\ \E k \in 1..Len(fu.output) :
       LET id == fu.output[k].id
       IN /\ id \in IdsOf(fu.textResults) \ IdsOf(fu.imageResults)
          /\ fu.output[k].score # normalizeScores(fu.textResults)[id]
          /\ \A j \in 1..Len(fu.textResults) : fu.output[k].score # fu.textResults[j].score

NonIncreasing(results) ==
  \A k \in 1..(Len(results) - 1) : RLeq(results[k + 1].score, results[k].score)

\* C13 as stated: whatever the input order and whether a list is empty or
\* not, the list returned by fuseModalityResults is ordered by
\* non-increasing score.
C13_Original == fu.phase = "fused" => NonIncreasing(fu.output)

\* C13 (amended): when both lists have results the returned list is ordered
\* by non-increasing score; when one list is empty the returned list is in
\* the input order of the other, and ordered only if that list was.
C13_OrderedWhenFused ==
  /\ FusedBoth => NonIncreasing(fu.output)
  /\ (fu.phase = "fused" /\ ~FusedBoth) =>
       (NonIncreasing(fu.output)
          <=> NonIncreasing(Slice(fu.textResults \o fu.imageResults, 0, fu.limit)))

\* an id of the image list only is returned ahead of an id of the text list
C13_Witness ==
  /\ FusedBoth /\ Len(fu.output) >= 2
  /\ fu.output[1].id \notin IdsOf(fu.textResults)
  /\ RLess(fu.output[2].score, fu.output[1].score)

NoIdTwice(results) ==
  \A j, k \in 1..Len(results) : results[j].id = results[k].id => j = k

\* C14 as stated: whether a list is empty or has an id more than once, the
\* list returned by fuseModalityResults has at most limit entries and no id
\* twice.
C14_Original ==
  fu.phase = "fused" => Len(fu.output) <= fu.limit /\ NoIdTwice(fu.output)

\* C14 (amended): the returned list has at most limit entries; it has no id
\* twice when both lists have results, and when one list is empty it has an
\* id twice exactly if the first limit entries of the other list have.
C14_LimitAndDistinct ==
  /\ fu.phase = "fused" => Len(fu.output) <= fu.limit
  /\ FusedBoth => NoIdTwice(fu.output)
  /\ (fu.phase = "fused" /\ ~FusedBoth) =>
       (NoIdTwice(fu.output)
          <=> NoIdTwice(Slice(fu.textResults \o fu.imageResults, 0, fu.limit)))

\* an id of both lists returned once, and the merged list cut to the limit
C14_Witness ==
  /\ FusedBoth /\ Len(fu.output) = fu.limit /\ fu.limit >= 1
  /\ Cardinality(IdsOf(fu.textResults) \cup IdsOf(fu.imageResults)) > fu.limit
  /\ fu.output[1].id \in IdsOf(fu.textResults) \cap IdsOf(fu.imageResults)

\* the first count entries of the list
FirstEntries(results, count) == SubSeq(results, 1, Min(count, Len(results)))

\* C15: when exactly one list is empty, fuseModalityResults returns the
\* first limit entries of the other list in their order, with id, score and
\* metadata as given; searchDocumentation returns the text results as they
\* are when the image search finds nothing.
C15_PassThrough ==
  /\ (fu.phase = "fused" /\ Len(fu.imageResults) = 0 /\ Len(fu.textResults) > 0) =>
       fu.output = FirstEntries(fu.textResults, fu.limit)
  /\ (fu.phase = "fused" /\ Len(fu.textResults) = 0 /\ Len(fu.imageResults) > 0) =>
       fu.output = FirstEntries(fu.imageResults, fu.limit)
  /\ (fu.phase = "searched" /\ fu.hasImageIndex /\ Len(fu.imageResults) = 0) =>
       fu.output = fu.textResults

\* an image list longer than the limit and in increasing order of score,
\* returned alone
C15_Witness ==
  /\ fu.phase = "fused" /\ Len(fu.textResults) = 0
  /\ fu.limit >= 1 /\ Len(fu.imageResults) > fu.limit
  /\ RLess(fu.imageResults[1].score, fu.imageResults[2].score)
  /\ Len(fu.output) = fu.limit

\* the scores normalizeScores was given, and the result that set the Map
\* entry of an id
RawScores == [k \in 1..Len(fu.textResults) |-> fu.textResults[k].score]

LastWith(id) == SetMax({k \in 1..Len(fu.textResults) : fu.textResults[k].id = id})

\* C16: for a non-empty list normalizeScores maps every score into [0,1]:
\* to 1 (0 if the scores are all 0) when the scores are all equal, and else
\* to (score - min) / (max - min), the maximum to 1 and the minimum to 0.
C16_MinMaxNormalised ==
  (fu.phase = "normalized" /\ Len(fu.textResults) > 0) =>
    LET norm == fu.normalized[1]
        max == RMax(RawScores)
        min == RMin(RawScores)
    IN /\ DOMAIN norm = IdsOf(fu.textResults)
       /\ \A id \in DOMAIN norm :
            LET score == RawScores[LastWith(id)]
            IN /\ InUnitInterval(norm[id])
               /\ max = min => norm[id] = (IF max.n # 0 THEN ROne ELSE RZero)
               /\ max # min =>
                    /\ RMul(norm[id], RSub(max, min)) = RSub(score, min)
                    /\ score = max => norm[id] = ROne
                    /\ score = min => norm[id] = RZero

\* a flat list of non-zero scores, every one normalised to 1
C16_Witness ==
  /\ fu.phase = "normalized" /\ Len(fu.textResults) >= 2
  /\ \A k \in 1..Len(RawScores) : RawScores[k] = RawScores[1] /\ RawScores[k] # RZero
  /\ Cardinality(IdsOf(fu.textResults)) >= 2
  /\ \A id \in DOMAIN fu.normalized[1] : fu.normalized[1][id] = ROne

\* text list [{A, 0.9}, {B, 0.1}], image list [{A, 0.2}] and limit 2
ScenarioD ==
  /\ fu.phase = "fused" /\ fu.limit = 2
  /\ Len(fu.textResults) = 2 /\ Len(fu.imageResults) = 1
  /\ fu.textResults[1].id = "A" /\ fu.textResults[1].score = Rat(9, 10)
  /\ fu.textResults[2].id = "B" /\ fu.textResults[2].score = Rat(1, 10)
  /\ fu.imageResults[1].id = "A" /\ fu.imageResults[1].score = Rat(2, 10)

\* C17: for text list [{A,0.9},{B,0.1}], image list [{A,0.2}] and limit 2,
\* fuseModalityResults returns [A, B] with A first; the score of A is its text
\* share (textWeight x 1) plus its image share (imageWeight x 1), and the
\* score of B is its text share alone (textWeight x 0).
C17_ScenarioD ==
  ScenarioD =>
    LET w == fu.weights[1]
    IN /\ Len(fu.output) = 2
       /\ fu.output[1].id = "A" /\ fu.output[2].id = "B"
       /\ fu.output[1].score = RAdd(RMul(w.textWeight, ROne), RMul(w.imageWeight, ROne))
       /\ fu.output[2].score = RMul(w.textWeight, RZero)
       /\ fu.output[2].metadata = fu.textResults[2].metadata

\* the scenario fused: both weights took part in the score of A
C17_Witness ==
  /\ ScenarioD
  /\ RLess(RZero, fu.weights[1].textWeight) /\ RLess(RZero, fu.weights[1].imageWeight)
  /\ Len(fu.output) = 2 /\ fu.output[1].score = ROne /\ fu.output[2].score = RZero

\* mergeSegments and normalizeSmallChunks run without interruption from the
\* locals r to their return, every awaited count answered from counts
RECURSIVE RunAlone(_, _, _)
RunAlone(r, counts, o) ==
  IF r.pc = "enforce"
  THEN RunAlone(enforceMaxSize(r, counts[Head(r.stack)].value, o.maxTokens), counts, o)
  ELSE IF r.pc = "accumulate"
  THEN RunAlone(Accumulate(r, counts[Candidate(r)].value, o), counts, o)
  ELSE IF r.pc = "normTokens"
  THEN RunAlone(NormalizeChunk(r, counts[r.chunks[r.index].text].value, o), counts, o)
  ELSE IF r.pc = "normMerged"
  THEN RunAlone(NormalizeMerged(r, counts[MergedText(r)].value, o), counts, o)
  ELSE r

\* what chunkDocumentSemantic returns for the document and options of p when
\* it runs alone and its collaborators answer as they answered p
ReturnedAlone(p) ==
  LET normalized == normalizeContent(content[p])
      sentences == splitIntoSentences(normalized)
      segs == buildSegments(sentences, detected[p])
  IN IF normalized = <<>> THEN <<>>
     ELSE IF Len(sentences) <= 1
     THEN <<[text |-> normalized,
             sentenceCount |-> IF Len(sentences) = 0 THEN 1 ELSE Len(sentences)]>>
     ELSE IF Len(segs) = 0 THEN <<>>
     ELSE RunAlone(NextSegment([NoLocals EXCEPT !.segments = segs]),
                   cache[p], config(p)).normalized

\* every count in the cache of p is the answer to a call p made itself
OwnCounts(p) == Cardinality(DOMAIN cache[p]) = tokenCalls[p]

\* C18: invocations that interleave at their awaits do not interfere: the
\* token cache of each holds only the answers to its own calls, and each
\* returns the chunk list it returns when run alone with those answers.
C18_NoInterference ==
  \A p \in Procs :
    /\ OwnCounts(p)
    /\ Done(p) => result[p] = ReturnedAlone(p)

\* two interleaved invocations on the same document that were given
\* different counts for a text and returned different lists, each the list
\* of its run alone
C18_Witness ==
  /\ Done(1) /\ Done(2) /\ content[1] = content[2]
  /\ \E t \in DOMAIN cache[1] \cap DOMAIN cache[2] : cache[1][t].value # cache[2][t].value
  /\ result[1] # result[2]
  /\ result[1] = ReturnedAlone(1) /\ result[2] = ReturnedAlone(2)
  /\ Len(result[1]) >= 2

\* C19: a call retry(fn, isRateLimitError) re-attempts only after a
\* rate-limit error, at most maxRetries times, after waiting
\* min(initialDelay x backoffFactor^attempt, maxDelay); an error that is no
\* rate-limit error is thrown after the attempt that raised it, and after
\* the last attempt the last error is thrown.
C19_RetryOnRateLimitOnly ==
  rt.predicate = "isRateLimitError" =>
    LET options == RETRY_DEFAULT_OPTIONS
    IN /\ Len(rt.slept) <= options.maxRetries
       /\ \A k \in 1..Len(rt.slept) :
            /\ isRateLimitError(rt.thrown[k])
            /\ rt.slept[k] = Min(options.initialDelay * Pow(options.backoffFactor, k - 1),
                                 options.maxDelay)
       /\ \A k \in 1..Len(rt.thrown) :
            ~isRateLimitError(rt.thrown[k]) =>
              k = Len(rt.thrown) /\ Len(rt.slept) = k - 1 /\ rt.outcome = "threw"
       /\ rt.outcome = "threw" =>
            /\ rt.thrown # <<>>
            /\ \/ ~isRateLimitError(rt.thrown[Len(rt.thrown)])
               \/ Len(rt.thrown) = options.maxRetries + 1
       /\ rt.outcome = "returned" => Len(rt.thrown) = Len(rt.slept)

\* the loop over the parts is between two pieces, or has just left a segment
BetweenPieces(p) == pc(p) \in {"accumulate", "enforce"}

\* the token count of the buffer of invocation p
BufferTokens(p) == Tokens(p, inv[p].current)

\* C20 as stated: after each piece the buffer holds fewer than targetTokens
\* tokens, also when a piece started a new buffer after an overflow flush.
C20_Original ==
  \A p \in Procs :
    (BetweenPieces(p) /\ inv[p].current # <<>>) => BufferTokens(p) < config(p).targetTokens

\* the count of a text as invocation p has it after the step
TokensAfter(p, text) ==
  IF text \in DOMAIN cache'[p] THEN cache'[p][text].value ELSE ApiTokens(text)

\* the step pushed the text as the next chunk
FlushedAs(p, text) ==
  /\ Len(inv'[p].chunks) > Len(inv[p].chunks)
  /\ inv'[p].chunks[Len(inv[p].chunks) + 1].text = text

\* the piece overflowed a non-empty buffer: the buffer was flushed and the
\* piece alone is the new buffer, whatever its token count
Restarted(p) ==
  LET part == Head(inv[p].parts)
      candidate == inv[p].current \o Blank \o part
  IN /\ inv[p].current # <<>>
     /\ TokensAfter(p, candidate) > config(p).maxTokens
     /\ inv'[p].current = part
     /\ Trim(inv[p].current) # <<>> => FlushedAs(p, inv[p].current)

\* What mergeSegments does keep: a piece that is appended leaves fewer than
\* targetTokens tokens in the buffer, and when the count of buffer and piece
\* reaches targetTokens the two are flushed as a chunk and the buffer is
\* empty.  A piece that overflowed a non-empty buffer starts the new buffer
\* without being compared with targetTokens.
FlushAtTargetWhenAppended ==
  [][\A p \in Procs :
       (pc(p) = "accumulate" /\ inv'[p] # inv[p]) =>
         LET part == Head(inv[p].parts)
             candidate == IF inv[p].current # <<>>
                          THEN inv[p].current \o Blank \o part ELSE part
             buffer == inv'[p].current
         IN \/ Restarted(p)
            \/ /\ buffer = <<>>
               /\ TokensAfter(p, candidate) >= config(p).targetTokens
               /\ FlushedAs(p, candidate)
            \/ /\ buffer = candidate
               /\ TokensAfter(p, buffer) < config(p).targetTokens
               /\ ~FlushedAs(p, candidate) \/ ~BetweenPieces(p)']_vars

\* a piece has overflowed the buffer and now is the buffer, with
\* targetTokens or more tokens
RestartedAtTarget ==
  /\ BetweenPieces(1) /\ inv[1].current # <<>>
  /\ inv[1].chunks # <<>>
  /\ BufferTokens(1) >= config(1).targetTokens
  /\ BufferTokens(1) <= config(1).maxTokens

\* the step pushed the scanned chunk as an entry of its own
KeptStandalone(p) ==
  inv'[p].normalized = Append(inv[p].normalized, inv[p].chunks[inv[p].index])

\* the step replaced the last entry by its text joined with the scanned chunk
MergedIntoPredecessor(p) ==
  LET previous == inv[p].normalized[Len(inv[p].normalized)]
      chunk == inv[p].chunks[inv[p].index]
  IN /\ Len(inv'[p].normalized) = Len(inv[p].normalized)
     /\ SubSeq(inv'[p].normalized, 1, Len(inv[p].normalized) - 1)
          = SubSeq(inv[p].normalized, 1, Len(inv[p].normalized) - 1)
     /\ inv'[p].normalized[Len(inv[p].normalized)] =
          [text |-> previous.text \o Blank \o chunk.text,
           sentenceCount |-> previous.sentenceCount + chunk.sentenceCount]

\* the scan of normalizeSmallChunks decides by the rule: the chunk is merged
\* when its count is below minTokens, an entry precedes it and the count of
\* the joined pair is at most maxTokens, and else kept standalone
ScanByRule(p) ==
  LET chunk == inv[p].chunks[inv[p].index]
      small == TokensAfter(p, chunk.text) < config(p).minTokens
      joined == inv[p].normalized[Len(inv[p].normalized)].text \o Blank \o chunk.text
  IN /\ (pc(p) = "normTokens" /\ inv'[p] # inv[p]) =>
          IF small /\ Len(inv[p].normalized) > 0
          THEN inv'[p] = [inv[p] EXCEPT !.pc = "normMerged"]
          ELSE KeptStandalone(p)
     /\ (pc(p) = "normMerged" /\ inv'[p] # inv[p]) =>
          /\ small /\ Len(inv[p].normalized) > 0
          /\ IF TokensAfter(p, joined) <= config(p).maxTokens
             THEN MergedIntoPredecessor(p)
             ELSE KeptStandalone(p)

\* in the list returned, with every count the estimator's own report, a
\* chunk after the first that is below minTokens cannot be joined with the
\* chunk before it within maxTokens
SmallOnlyIfUnmergeable(p) ==
  (Done(p) /\ faults = 0) =>
    \A i \in ChunkIndices(p) \ {1} :
      Tokens(p, result[p][i].text) < config(p).minTokens =>
        Tokens(p, result[p][i - 1].text \o Blank \o result[p][i].text) > config(p).maxTokens

AwayFromEdges(text, pat) ==
  {i \in Occurrences(text, pat) : i >= EdgeMargin /\ i <= Len(text) - EdgeMargin}

ParagraphBreaks(text) == AwayFromEdges(text, <<"\n", "\n">>)

SentenceEnds(text) ==
  AwayFromEdges(text, <<".", " ">>) \cup AwayFromEdges(text, <<"!", " ">>)
    \cup AwayFromEdges(text, <<"?", " ">>)

\* the members of a set of positions that are nearest to the midpoint
Nearest(positions, midpoint) ==
  {i \in positions : \A j \in positions : Abs(midpoint - i) <= Abs(midpoint - j)}

Looked(text, pat, forward) ==
  LET midpoint == Len(text) \div 2
      before == {i \in Occurrences(text, pat) : i <= midpoint}
      after == {i \in Occurrences(text, pat) : i > midpoint}
  IN (IF before = {} THEN {} ELSE {SetMax(before)})
       \cup (IF forward /\ after # {} THEN {SetMin(after)} ELSE {})

LookedParagraphBreaks(text) ==
  {i \in Looked(text, <<"\n", "\n">>, TRUE) : i > 0 /\ i \in ParagraphBreaks(text)}

LookedSentenceEnds(text) ==
  {i \in Looked(text, <<".", " ">>, TRUE) \cup Looked(text, <<"!", " ">>, FALSE)
           \cup Looked(text, <<"?", " ">>, FALSE) : i > 0 /\ i \in SentenceEnds(text)}

DroppedAt(i) ==
  LET stats == Stats(bd.similarities, bd.opts)
      n == Len(stats.smoothed)
      current == n * stats.smoothed[i + 1]
      previous == IF i = 0 THEN stats.meanN ELSE n * stats.smoothed[i]
  IN /\ previous - current > n * stats.den * bd.opts.similarityDrop
     /\ current < previous

\* the smoothed value at position i is below the threshold, and so below
\* the mean, the threshold being at most the mean
UnderThresholdAt(i) ==
  LET stats == Stats(bd.similarities, bd.opts)
      n == Len(stats.smoothed)
      current == n * stats.smoothed[i + 1]
  IN BelowThreshold(current, stats, bd.opts) /\ current < stats.meanN

\* C23: every breakpoint b returned by detectBreakPoints for n sentences
\* has 2 <= b <= n - 2, and at position i = b - 1 the smoothed similarity
\* either dropped by more than similarityDrop below the previous value
\* (the mean at i = 0) or is below the threshold, which is at most the mean.
C23_BreakpointRange ==
  Detected =>
    \A k \in 1..Len(bd.breakPoints) :
      LET b == bd.breakPoints[k]
      IN /\ 2 <= b /\ b <= bd.sentenceCount - 2
         /\ DroppedAt(b - 1) \/ UnderThresholdAt(b - 1)

\* a breakpoint at the last admissible sentence, n - 2, marked by the drop
\* alone, and one marked by the threshold alone
C23_Witness ==
  /\ Detected /\ Len(bd.breakPoints) >= 2
  /\ bd.breakPoints[Len(bd.breakPoints)] = bd.sentenceCount - 2
  /\ \E k \in 1..Len(bd.breakPoints) :
       DroppedAt(bd.breakPoints[k] - 1) /\ ~UnderThresholdAt(bd.breakPoints[k] - 1)
  /\ \E k \in 1..Len(bd.breakPoints) :
       ~DroppedAt(bd.breakPoints[k] - 1) /\ UnderThresholdAt(bd.breakPoints[k] - 1)

\* the series is short enough for every window of smooth to cover it whole
ShortSeries == Len(bd.similarities) <= bd.opts.smoothWindow + 1

\* every value of the smoothed series is the same
SmoothedConstant ==
  LET smoothed == Stats(bd.similarities, bd.opts).smoothed
  IN \A i, j \in 1..Len(smoothed) : smoothed[i] = smoothed[j]

\* In exact arithmetic detectBreakPoints returns no breakpoint for a
\* document of fewer than 4 sentences; and when the similarity series has
\* at most smoothWindow + 1 entries the smoothed series is constant and no
\* breakpoint is returned, so that the document forms a single segment.
C27_ShortDocumentsUnbroken ==
  /\ (Detected /\ bd.sentenceCount < 4) => bd.breakPoints = <<>>
  /\ (Detected /\ ShortSeries) => SmoothedConstant /\ bd.breakPoints = <<>>
  /\ (bd.phase = "built" /\ (ShortSeries \/ bd.sentenceCount < 4))
       => Len(bd.segments) = 1

\* four sentences under the default radius whose raw similarities fall
\* from the largest to the smallest value, built into one segment
C27_Witness ==
  /\ bd.phase = "built" /\ bd.sentenceCount = 4
  /\ bd.opts.smoothWindow = DEFAULT_OPTIONS.smoothWindow
  /\ bd.similarities = <<SimScale, -SimScale, SimScale>>
  /\ bd.breakPoints = <<>> /\ Len(bd.segments) = 1

\* every value of the series smoothed in the arithmetic of numbers is the
\* same
SmoothedConstantDouble ==
  LET values == [i \in 1..Len(bd.similarities) |-> SimDouble(bd.similarities[i])]
      smoothed == smoothDouble(values, bd.opts.smoothWindow)
  IN \A i, j \in 1..Len(smoothed) : smoothed[i] = smoothed[j]

\* C27: detectBreakPoints returns no breakpoint for a document of fewer
\* than 4 sentences; and when the similarity series has at most
\* smoothWindow + 1 entries the smoothed series is constant and no
\* breakpoint is returned, so that the document forms a single segment.
\* In the arithmetic of numbers the mean of six equal smoothed values can
\* lie above them, and with stdMultiplier = 0 they are then under the
\* threshold.
C27_Original ==
  /\ (Detected /\ bd.sentenceCount < 4) => bd.breakPoints = <<>>
  /\ (Detected /\ ShortSeries) => SmoothedConstantDouble /\ bd.breakPoints = <<>>
  /\ (bd.phase = "built" /\ (ShortSeries \/ bd.sentenceCount < 4))
       => Len(bd.segments) = 1

\* the ids that both lists have
SharedIds == IdsOf(fu.textResults) \cap IdsOf(fu.imageResults)

\* textWeight * textNormalized and imageWeight * imageNormalized of an id
TextPartial(id) ==
  RMul(fu.weights[1].textWeight, normalizeScores(fu.textResults)[id])

ImagePartial(id) ==
  RMul(fu.weights[1].imageWeight, normalizeScores(fu.imageResults)[id])

\* the positions of the output that hold the id
PositionsOf(id) == {k \in 1..Len(fu.output) : fu.output[k].id = id}

\* C24 as stated: when both lists have results, an id of both lists is in
\* the output once, with the score textWeight * textNormalized +
\* imageWeight * imageNormalized, which is at least either partial score.
C24_Original ==
  FusedBoth =>
    \A id \in SharedIds :
      /\ Cardinality(PositionsOf(id)) = 1
      /\ \A k \in PositionsOf(id) :
           /\ fu.output[k].score = RAdd(TextPartial(id), ImagePartial(id))
           /\ RLeq(TextPartial(id), fu.output[k].score)
           /\ RLeq(ImagePartial(id), fu.output[k].score)

\* the fused score of an id of both lists: the image partial score counts
\* once for every image result with the id
FusedScoreOf(id) ==
  RAdd(TextPartial(id),
       RMul(Rat(Occurs(fu.imageResults, id), 1), ImagePartial(id)))

\* C24 (amended): when both lists have results, an id of both lists is in
\* the output at most once, and once unless the limit cuts it off behind
\* limit results of at least its score; its score is textWeight *
\* textNormalized + imageWeight * imageNormalized times the number of
\* image results with the id, which is at least either partial score.
C24_SharedIdSummed ==
  FusedBoth =>
    \A id \in SharedIds :
      /\ Cardinality(PositionsOf(id)) <= 1
      /\ PositionsOf(id) = {} =>
           /\ Len(fu.output) = fu.limit
           /\ \A k \in 1..Len(fu.output) : RLeq(FusedScoreOf(id), fu.output[k].score)
      /\ \A k \in PositionsOf(id) :
           /\ fu.output[k].score = FusedScoreOf(id)
           /\ RLeq(TextPartial(id), fu.output[k].score)
           /\ RLeq(ImagePartial(id), fu.output[k].score)

\* an id of both lists, once in the image list, returned with a score above
\* both of its partial scores; and an id that is twice in the image list
C24_Witness ==
  /\ FusedBoth
  /\ \E id \in SharedIds, k \in 1..Len(fu.output) :
       /\ fu.output[k].id = id /\ Occurs(fu.imageResults, id) = 1
       /\ RLess(TextPartial(id), fu.output[k].score)
       /\ RLess(ImagePartial(id), fu.output[k].score)

\* the result whose fields an id of the text list has in the Map: the last
\* text result with the id, every combined.set replacing the one before
TextEntryOf(id) ==
  fu.textResults[SetMax({k \in 1..Len(fu.textResults) : fu.textResults[k].id = id})]

\* the image result that meets the text entry of the id: the first one
ImageEntryOf(id) ==
  fu.imageResults[SetMin({k \in 1..Len(fu.imageResults) : fu.imageResults[k].id = id})]

\* the text entry says it is an image and the image entry does not
ImagePreferred(id) ==
  /\ TextEntryOf(id).metadata.modality = "image"
  /\ ImageEntryOf(id).metadata.modality # "image"

\* C25: the fused result of an id of both lists carries the metadata of
\* the text-list entry, except when that metadata has modality 'image' and
\* the metadata of the image-list entry has not: then it carries the
\* metadata of the image-list entry.  In both cases its score is the sum of
\* the partial scores.
C25_MetadataOfSharedId ==
  FusedBoth =>
    \A k \in 1..Len(fu.output) :
      LET id == fu.output[k].id
      IN id \in SharedIds =>
           /\ fu.output[k].metadata
                = IF ImagePreferred(id) THEN ImageEntryOf(id).metadata
                  ELSE TextEntryOf(id).metadata
           /\ fu.output[k].score = FusedScoreOf(id)

\* an id of both lists returned with the metadata of its image-list entry
\* and a score above both partial scores
C25_Witness ==
  /\ FusedBoth
  /\ \E k \in 1..Len(fu.output) :
       LET id == fu.output[k].id
       IN /\ id \in SharedIds /\ ImagePreferred(id)
          /\ fu.output[k].metadata = ImageEntryOf(id).metadata
          /\ fu.output[k].metadata # TextEntryOf(id).metadata
          /\ RLess(TextPartial(id), fu.output[k].score)
          /\ RLess(ImagePartial(id), fu.output[k].score)

\* C28: when both lists have results and neither has an id twice, every
\* score returned by fuseModalityResults is in [0,1]; an id that is several
\* times in the image list gets its image partial score once per
\* occurrence, whence the restriction to lists of unique ids.
C28_ScoresInUnitInterval ==
  /\ (FusedBoth /\ NoIdTwice(fu.textResults) /\ NoIdTwice(fu.imageResults)) =>
       \A k \in 1..Len(fu.output) : InUnitInterval(fu.output[k].score)
  /\ FusedBoth =>
       \A k \in 1..Len(fu.output) :
         LET id == fu.output[k].id
             times == Rat(Occurs(fu.imageResults, id), 1)
         IN Occurs(fu.imageResults, id) >= 2 =>
              fu.output[k].score
                = IF id \in IdsOf(fu.textResults)
                  THEN RAdd(TextPartial(id), RMul(times, ImagePartial(id)))
                  ELSE RMul(times, ImagePartial(id))

\* lists of unique ids with an id of both lists returned with the score 1
\* exactly, made of two partial scores that are both positive
C28_Witness ==
  /\ FusedBoth /\ NoIdTwice(fu.textResults) /\ NoIdTwice(fu.imageResults)
  /\ \E k \in 1..Len(fu.output) :
       LET id == fu.output[k].id
       IN /\ id \in SharedIds /\ fu.output[k].score = ROne
          /\ RLess(RZero, TextPartial(id)) /\ RLess(RZero, ImagePartial(id))

\* enforceMaxSize has returned to its caller
Bisected == sp.phase = "bisect" /\ sp.run.pc # "enforce"

\* the texts of the recursive calls that the step has just made
NewCalls ==
  SubSeq(sp'.run.stack, 1, Len(sp'.run.stack) - Len(sp.run.stack) + 1)

\* every recursive call of the step is on a non-empty text shorter than
\* the text of the call that makes it
CallsOnShorter ==
  (sp.phase = "bisect" /\ sp.run.pc = "enforce") =>
    \A k \in 1..Len(NewCalls) :
      Len(NewCalls[k]) > 0 /\ Len(NewCalls[k]) < Len(Head(sp.run.stack))

\* the text is the pieces in their order with white space between them only
RECURSIVE JoinedBy(_, _)
JoinedBy(text, pieces) ==
  IF pieces = <<>> THEN text = <<>>
  ELSE /\ Len(Head(pieces)) > 0 /\ Len(Head(pieces)) <= Len(text)
       /\ SubSeq(text, 1, Len(Head(pieces))) = Head(pieces)
       /\ JoinedBy(TrimStart(SubSeq(text, Len(Head(pieces)) + 1, Len(text))),
                   Tail(pieces))

\* C26: enforceMaxSize returns for every text and every estimator, one
\* that reports every text as above maxTokens included; every recursive
\* call is on a strictly shorter non-empty text; and the pieces returned,
\* put together in their order, are the text but for the white space
\* trimmed where it was split.
C26_Terminates ==
  /\ <>Bisected
  /\ [][CallsOnShorter]_vars
  /\ [](Bisected => JoinedBy(sp.text, sp.run.parts))

\* under the estimator that reports every text as above maxTokens, a text
\* split at a sentence end has come back as pieces of one or two characters,
\* the blank after the sentence end being in none of them
C26_Witness ==
  /\ Bisected /\ sp.estimator = "above" /\ sp.text \in LongTexts
  /\ \E k \in 1..(Len(sp.text) - 1) : sp.text[k] = "." /\ sp.text[k + 1] = " "
  /\ Len(sp.run.parts) >= EdgeMargin
  /\ \A k \in 1..Len(sp.run.parts) :
       /\ Len(sp.run.parts[k]) \in {1, 2}
       /\ \A j \in 1..Len(sp.run.parts[k]) : sp.run.parts[k][j] # " "

\* the operations a process has called, and those that are over
ChainOf(p) == js.procs[p].chain

Finished(op) == op.pc \in {"returned", "threw"}

\* the jobs after the operations of the list that returned, one after the
\* other in the order of the list
RECURSIVE Replay(_, _)
Replay(jobs, ops) ==
  IF ops = <<>> THEN jobs
  ELSE Replay(IF Head(ops).pc = "returned" THEN operation(Head(ops), jobs).jobs
              ELSE jobs,
              Tail(ops))

\* at most one operation of a process is between its readJobs and its
\* writeJobs
OneAtATime(p) ==
  Cardinality({i \in 1..Len(ChainOf(p)) : ChainOf(p)[i].pc = "writeJobs"}) <= 1

\* an operation has gone past await previous only if every operation
\* called before it is over
InIssueOrder(p) ==
  \A i, j \in 1..Len(ChainOf(p)) :
    (i < j /\ ChainOf(p)[j].pc # "await previous") => Finished(ChainOf(p)[i])

\* the file holds the effect of every operation that returned, and every
\* listJobs and getJob saw the effect of the operations called before it
NoLostUpdate ==
  /\ js.file = Replay(js.initial, ChainOf(1))
  /\ \A i \in 1..Len(ChainOf(1)) :
       (ChainOf(1)[i].pc = "returned" /\ ChainOf(1)[i].kind \in {"listJobs", "getJob"})
         => ChainOf(1)[i].jobs = Replay(js.initial, SubSeq(ChainOf(1), 1, i - 1))

\* an operation that is over has released the lock, and the first
\* operation that still waits can go on
LockReleased(p) ==
  \A i \in 1..Len(ChainOf(p)) :
    /\ Finished(ChainOf(p)[i]) => ChainOf(p)[i].released
    /\ (ChainOf(p)[i].pc = "await previous"
          /\ \A j \in 1..(i - 1) : Finished(ChainOf(p)[j]))
         => Resolved(js.procs[p], ChainOf(p)[i].previous)

\* C29: the job-store operations that one process calls without awaiting
\* them run one at a time in the order of the calls: no two of them are
\* between reading and writing the file at once, no update is lost, and an
\* operation that throws releases the lock, so that the next one runs.
C29_Serialized ==
  /\ \A p \in Pids : OneAtATime(p) /\ InIssueOrder(p) /\ LockReleased(p)
  /\ js.mode = "store" => NoLostUpdate

\* three operations called at once: the first threw, the second has read
\* the file and not yet written it, the third waits; and later all three
\* are over with the update of the second in the file
C29_Witness ==
  /\ js.mode = "store" /\ Len(ChainOf(1)) = 3
  /\ ChainOf(1)[1].pc = "threw"
  /\ ChainOf(1)[2].kind = "updateJob" /\ ChainOf(1)[2].updates.status = "in-progress"
  /\ ChainOf(1)[2].pc = "returned"
  /\ ChainOf(1)[3].kind = "appendJobLog" /\ ChainOf(1)[3].pc = "writeJobs"
  /\ js.file["j1"].status = "in-progress"
  /\ js.initial["j1"].status = "queued"

WorkerOf(w) == js.procs[w].worker

\* the job of the worker is in the file when the workers are forked, and
\* the configuration passed to the worker is complete
Eligible(w) ==
  js.mode = "workers" /\ js.initial[JobOf(w)] # Absent /\ WorkerOf(w).configOk

\* run() has returned
RunFinished(w) == WorkerOf(w).pc = "exited"

\* the status of the job of the worker in jobs.json
Persisted(w) == js.file[JobOf(w)].status

\* the status moves from queued to in-progress and from there to completed
\* or to failed, or stays
StatusMovesOn(w) ==
  \/ Persisted(w)' = Persisted(w)
  \/ Persisted(w) = "queued" /\ Persisted(w)' = "in-progress"
  \/ Persisted(w) = "in-progress" /\ Persisted(w)' \in {"completed", "failed"}

\* the status is the terminal one that the end of the indexing calls for
TerminalAsSettled(w) ==
  Persisted(w) = IF WorkerOf(w).settled = "returned" THEN "completed" ELSE "failed"

\* C30: for a job that exists and has a valid configuration the persisted
\* status moves from queued to in-progress and then to completed when the
\* indexing returned, to failed when it threw; no progress or log update
\* fired during an indexing run moves it back, and once run() of the worker
\* has returned the persisted status is that terminal status.
C30_Original ==
  /\ [][\A w \in Pids : Eligible(w) => StatusMovesOn(w)]_vars
  /\ [](\A w \in Pids : (Eligible(w) /\ RunFinished(w)) => TerminalAsSettled(w))

\* no other worker has called the job store yet
RunsAlone(w) == \A v \in Pids \ {w} : WorkerOf(v).pc = "spawned"

\* for a worker that is the only process to touch jobs.json the status is
\* the terminal one once run() has returned
TerminalWhenAlone ==
  \A w \in Pids :
    (Eligible(w) /\ RunFinished(w) /\ RunsAlone(w)) => TerminalAsSettled(w)

====
